---- MODULE Spec2Model ----
(***************************************************************************)
(* State-machine model of the HotShot consensus state core:                *)
(*   - the consensus store (types/src/consensus.rs): progress markers,     *)
(*     last-action bundle, the per-view tables (state map, saved leaves,   *)
(*     payloads, VID shares, DA certificates, last proposals) with their   *)
(*     update methods, garbage collection and the leaf-ancestor walk;      *)
(*   - the lock around the store (OuterConsensus and its guards) with      *)
(*     calculate_and_update_vid, for tasks that share the store;           *)
(*   - the event channel: broadcast_event (task-impls/src/helpers.rs) on   *)
(*     a channel set up as in EventsStreamer::new (src/events_source.rs);  *)
(*   - the DA task (hotshot-task-impls da.rs), whose handler source is not *)
(*     part of the files at hand: it is modelled from section 4.4 of the   *)
(*     specification and exercised with the scenarios of                   *)
(*     testing/tests/tests_1/da_task.rs.                                   *)
(***************************************************************************)
EXTENDS Integers, Sequences, FiniteSets, TLC

\* ------------------------------------------------------------------ bounds
MaxView == 3
MaxEpoch == 2
DaMaxView == 2
TblMaxView == 2
PayMaxView == 1
VisitMaxView == 3
MaxEntries == 4
ActMaxView == 2
NumTasks == 2
ChanCapacity == 2
MaxPublished == 4

\* ------------------------------------------------------- program constants
\* ConsensusTime::genesis(): the view/epoch every marker starts from.
Genesis == 0

Views == Genesis..MaxView
Epochs == Genesis..MaxEpoch
DaViews == 1..DaMaxView
Nodes == {0, 1}
LeafIds == {0, 1}
TblViews == Genesis..TblMaxView
PayViews == Genesis..PayMaxView
GcViews == {0, 1, 2}
VisitViews == 1..VisitMaxView
Payloads == {"txns_a", "txns_b"}
ActViews == Genesis..ActMaxView
Tasks == 1..NumTasks
LockViews == {1}
Subscribers == {1, 2}
\* HotShotAction: the four kinds the store records, and one it does not
RecordedActions == {"Vote", "Propose", "DaPropose", "DaVote"}
HotShotActions == RecordedActions \cup {"ViewSyncVote"}

VARIABLES
    consensus,          \* the Consensus store (one shared instance)
    ret,                \* outcome of the last store operation
    first_payloads,     \* history: the first payload recorded for each view
    proposed_views,     \* history: the views update_proposed_view has accepted,
                        \* each with once or twice (twice: more than once)
    da_cur_view,        \* DaTaskState: the view the task tracks
    da_payload_arrived, \* DaTaskState: a payload arrived for the tracked view
    da_processed,       \* DaTaskState: views whose DA proposal was handled
    da_out,             \* events the DA task has published, in order
    da_last,            \* the last input the DA task handled and its outcome
    da_running,         \* whether the DA task's event loop is still running
    storage,            \* the storage collaborator (test storage)
    lock,               \* the RwLock around the store (OuterConsensus.inner_consensus)
    tasks,              \* each task sharing the store: where it is, the guard it holds
    channel,            \* the broadcast channel events are published on
    stream_log          \* history: the events EventsStreamer has handled (their
                        \* number and the kind of the latest) and the last event
                        \* each subscriber's stream gave

vars == <<consensus, ret, first_payloads, proposed_views, da_cur_view, da_payload_arrived, da_processed,
          da_out, da_last, da_running, storage, lock, tasks, channel, stream_log>>

storeVars == <<consensus, ret>>
histVars == <<first_payloads, proposed_views, stream_log>>
lockVars == <<lock, tasks>>
chanVars == <<channel>>
daVars == <<da_cur_view, da_payload_arrived, da_processed, da_out, da_last,
            da_running, storage>>

\* ------------------------------------------------------------ small helpers
\* Nothing handled by the streamer, nothing received by any subscriber
NothingStreamed ==
    [handled |-> 0, kind |-> "-", last |-> [s \in Subscribers |-> << >>]]

MaxOf(S, default) == IF S = {} THEN default ELSE CHOOSE x \in S : \A y \in S : y <= x

IsPrefix(s, t) == Len(s) <= Len(t) /\ SubSeq(t, 1, Len(s)) = s

\* ============================================================== the store
\* HotShotActionViews::from_view
from_view(view) ==
    [proposed |-> view, voted |-> view, da_proposed |-> view, da_vote |-> view]

\* Consensus::new (vid_shares and saved_da_certs start empty)
new_consensus(validated_state_map, cur_view, cur_epoch, locked_view, last_decided_view, last_actioned_view, last_proposals, saved_leaves, saved_payloads, high_qc) ==
    [validated_state_map |-> validated_state_map,
     vid_shares        |-> << >>,
     saved_da_certs    |-> << >>,
     cur_view          |-> cur_view,
     cur_epoch         |-> cur_epoch,
     last_decided_view |-> last_decided_view,
     last_proposals    |-> last_proposals,
     last_actions      |-> from_view(last_actioned_view),
     locked_view       |-> locked_view,
     saved_leaves      |-> saved_leaves,
     saved_payloads    |-> saved_payloads,
     high_qc           |-> high_qc]

\* An empty BTreeMap
EmptyMap == [x \in {} |-> 0]

\* A quorum certificate: its view and the leaf it certifies
QC(view, leaf) == [view_number |-> view, leaf |-> leaf]

\* The outcome of a fallible store method: Result<()> and the store afterwards
Ok(self) == [ok |-> TRUE, self |-> self]
Err(self) == [ok |-> FALSE, self |-> self]

\* Consensus::update_view, with the guard weakened to >= (mutant)
update_view_nonstrict(self, view_number) ==
    IF view_number >= self.cur_view
    THEN Ok([self EXCEPT !.cur_view = view_number])
    ELSE Err(self)

\* Consensus::update_view
update_view(self, view_number) ==
    IF view_number > self.cur_view
    THEN Ok([self EXCEPT !.cur_view = view_number])
    ELSE Err(self)

\* Consensus::update_epoch
update_epoch(self, epoch_number) ==
    IF epoch_number > self.cur_epoch
    THEN Ok([self EXCEPT !.cur_epoch = epoch_number])
    ELSE Err(self)

\* The field of last_actions that holds the last view of an action kind
last_action(self, action) ==
    CASE action = "Vote"      -> self.last_actions.voted
      [] action = "Propose"   -> self.last_actions.proposed
      [] action = "DaPropose" -> self.last_actions.da_proposed
      [] action = "DaVote"    -> self.last_actions.da_vote

\* Consensus::update_action, accepting a repeated view for votes (mutant)
update_action_repeatable(self, action, view) ==
    CASE action = "DaVote" ->
           [newer |-> TRUE,
            self  |-> IF view > self.last_actions.da_vote
                      THEN [self EXCEPT !.last_actions.da_vote = view]
                      ELSE self]
      [] action = "Vote" ->
           IF view >= self.last_actions.voted
           THEN [newer |-> TRUE, self |-> [self EXCEPT !.last_actions.voted = view]]
           ELSE [newer |-> FALSE, self |-> self]
      [] action = "Propose" ->
           IF view > self.last_actions.proposed
           THEN [newer |-> TRUE, self |-> [self EXCEPT !.last_actions.proposed = view]]
           ELSE [newer |-> FALSE, self |-> self]
      [] action = "DaPropose" ->
           IF view > self.last_actions.da_proposed
           THEN [newer |-> TRUE, self |-> [self EXCEPT !.last_actions.da_proposed = view]]
           ELSE [newer |-> FALSE, self |-> self]
      [] OTHER -> [newer |-> TRUE, self |-> self]

\* Consensus::update_action, treating DA votes like the other kinds (mutant)
update_action_da_vote_strict(self, action, view) ==
    CASE action = "DaVote" ->
           IF view > self.last_actions.da_vote
           THEN [newer |-> TRUE, self |-> [self EXCEPT !.last_actions.da_vote = view]]
           ELSE [newer |-> FALSE, self |-> self]
      [] action = "Vote" ->
           IF view > self.last_actions.voted
           THEN [newer |-> TRUE, self |-> [self EXCEPT !.last_actions.voted = view]]
           ELSE [newer |-> FALSE, self |-> self]
      [] action = "Propose" ->
           IF view > self.last_actions.proposed
           THEN [newer |-> TRUE, self |-> [self EXCEPT !.last_actions.proposed = view]]
           ELSE [newer |-> FALSE, self |-> self]
      [] action = "DaPropose" ->
           IF view > self.last_actions.da_proposed
           THEN [newer |-> TRUE, self |-> [self EXCEPT !.last_actions.da_proposed = view]]
           ELSE [newer |-> FALSE, self |-> self]
      [] OTHER -> [newer |-> TRUE, self |-> self]

\* Consensus::update_action storing the view of a DA vote even when it is
\* older (mutant)
update_action_da_vote_overwriting(self, action, view) ==
    CASE action = "DaVote" ->
           [newer |-> TRUE, self |-> [self EXCEPT !.last_actions.da_vote = view]]
      [] action = "Vote" ->
           IF view > self.last_actions.voted
           THEN [newer |-> TRUE, self |-> [self EXCEPT !.last_actions.voted = view]]
           ELSE [newer |-> FALSE, self |-> self]
      [] action = "Propose" ->
           IF view > self.last_actions.proposed
           THEN [newer |-> TRUE, self |-> [self EXCEPT !.last_actions.proposed = view]]
           ELSE [newer |-> FALSE, self |-> self]
      [] action = "DaPropose" ->
           IF view > self.last_actions.da_proposed
           THEN [newer |-> TRUE, self |-> [self EXCEPT !.last_actions.da_proposed = view]]
           ELSE [newer |-> FALSE, self |-> self]
      [] OTHER -> [newer |-> TRUE, self |-> self]

\* Consensus::update_action
update_action(self, action, view) ==
    CASE action = "DaVote" ->
           [newer |-> TRUE,
            self  |-> IF view > self.last_actions.da_vote
                      THEN [self EXCEPT !.last_actions.da_vote = view]
                      ELSE self]
      [] action = "Vote" ->
           IF view > self.last_actions.voted
           THEN [newer |-> TRUE, self |-> [self EXCEPT !.last_actions.voted = view]]
           ELSE [newer |-> FALSE, self |-> self]
      [] action = "Propose" ->
           IF view > self.last_actions.proposed
           THEN [newer |-> TRUE, self |-> [self EXCEPT !.last_actions.proposed = view]]
           ELSE [newer |-> FALSE, self |-> self]
      [] action = "DaPropose" ->
           IF view > self.last_actions.da_proposed
           THEN [newer |-> TRUE, self |-> [self EXCEPT !.last_actions.da_proposed = view]]
           ELSE [newer |-> FALSE, self |-> self]
      [] OTHER -> [newer |-> TRUE, self |-> self]

\* Consensus::reset_actions (HotShotActionViews::default is from_view(genesis))
reset_actions(self) == [self EXCEPT !.last_actions = from_view(Genesis)]

\* BTreeMap::last_key_value().map_or(genesis, |(k, _)| *k)
last_proposed_key(self) == MaxOf(DOMAIN self.last_proposals, Genesis)

\* Consensus::update_proposed_view, with the guard weakened to >= (mutant)
update_proposed_view_nonstrict(self, proposal) ==
    IF proposal.view_number >= last_proposed_key(self)
    THEN Ok([self EXCEPT !.last_proposals =
                [v \in (DOMAIN @) \cup {proposal.view_number} |->
                    IF v = proposal.view_number THEN proposal ELSE @[v]]])
    ELSE Err(self)

\* Consensus::update_proposed_view
update_proposed_view(self, proposal) ==
    IF proposal.view_number > last_proposed_key(self)
    THEN Ok([self EXCEPT !.last_proposals =
                [v \in (DOMAIN @) \cup {proposal.view_number} |->
                    IF v = proposal.view_number THEN proposal ELSE @[v]]])
    ELSE Err(self)

\* Consensus::update_last_decided_view dragging the locked view along (mutant)
update_last_decided_view_locking(self, view_number) ==
    IF view_number > self.last_decided_view
    THEN Ok([self EXCEPT !.last_decided_view = view_number,
                         !.locked_view = IF @ < view_number THEN view_number ELSE @])
    ELSE Err(self)

\* Consensus::update_last_decided_view
update_last_decided_view(self, view_number) ==
    IF view_number > self.last_decided_view
    THEN Ok([self EXCEPT !.last_decided_view = view_number])
    ELSE Err(self)

\* Consensus::update_locked_view without its ensure! (mutant)
update_locked_view_unchecked(self, view_number) ==
    Ok([self EXCEPT !.locked_view = view_number])

\* Consensus::update_locked_view
update_locked_view(self, view_number) ==
    IF view_number > self.locked_view
    THEN Ok([self EXCEPT !.locked_view = view_number])
    ELSE Err(self)

\* Consensus::update_high_qc, with the guard weakened to >= (mutant)
update_high_qc_nonstrict(self, high_qc) ==
    IF high_qc.view_number >= self.high_qc.view_number
    THEN Ok([self EXCEPT !.high_qc = high_qc])
    ELSE Err(self)

\* Consensus::update_high_qc
update_high_qc(self, high_qc) ==
    IF high_qc.view_number > self.high_qc.view_number
    THEN Ok([self EXCEPT !.high_qc = high_qc])
    ELSE Err(self)

\* --------------------------------------------------------- the store's tables
\* BTreeMap::insert / HashMap::insert
Put(m, k, val) == [x \in (DOMAIN m) \cup {k} |-> IF x = k THEN val ELSE m[x]]

\* BTreeMap::split_off with the key `at` itself left behind (mutant)
split_off_exclusive(m, at) == [x \in {k \in DOMAIN m : k > at} |-> m[x]]

\* BTreeMap::split_off(&at): the entries whose key is >= at
split_off(m, at) == [x \in {k \in DOMAIN m : k >= at} |-> m[x]]

\* Option<T>: None is the empty sequence, Some(x) the one-element sequence
None == << >>
Some(x) == <<x>>

\* A leaf commitment (Commitment<Leaf>): it binds the leaf's view and content
Commitment(view, id) == [view |-> view, id |-> id]

\* A leaf: its view, its content and the commitment of its parent. Leaves
\* with id 0 form the main chain; a leaf of either id extends the main-chain
\* leaf of the previous view.
Leaf(view, id) ==
    [view_number |-> view, id |-> id, parent_commitment |-> Commitment(view - 1, 0)]

\* Leaf::commit
commit(leaf) == Commitment(leaf.view_number, leaf.id)

\* View / ViewInner: the record the state map keeps for a view. The validated
\* state travels with the Leaf variant; delta is whether a delta is known.
LeafView(leaf, delta) == [kind |-> "Leaf", leaf |-> leaf, delta |-> delta]
DaOnlyView == [kind |-> "DaOnly", leaf |-> Commitment(0, 0), delta |-> FALSE]
FailedView == [kind |-> "Failed", leaf |-> Commitment(0, 0), delta |-> FALSE]

\* View::leaf_commitment: only the Leaf variant has one
leaf_commitment(view) == IF view.kind = "Leaf" THEN Some(view.leaf) ELSE None

\* Consensus::update_validated_state_map without its checks (mutant)
update_validated_state_map_overriding(self, view_number, new_view) ==
    Ok([self EXCEPT !.validated_state_map = Put(@, view_number, new_view)])

\* Consensus::update_validated_state_map
update_validated_state_map(self, view_number, new_view) ==
    LET m == self.validated_state_map
        existing_is_leaf == view_number \in DOMAIN m /\ m[view_number].kind = "Leaf"
    IN  IF existing_is_leaf /\ new_view.kind = "Leaf"
             /\ ~(new_view.delta \/ ~m[view_number].delta)
        THEN Err(self)      \* ensure!: a known delta is not replaced by none
        ELSE IF existing_is_leaf /\ new_view.kind # "Leaf"
        THEN Err(self)      \* bail!: a Leaf is not replaced by a non-Leaf
        ELSE Ok([self EXCEPT !.validated_state_map = Put(@, view_number, new_view)])

\* Consensus::update_saved_leaves
update_saved_leaves(self, leaf) ==
    [self EXCEPT !.saved_leaves = Put(@, commit(leaf), leaf)]

\* Consensus::update_saved_payloads without its ensure! (mutant)
update_saved_payloads_overwriting(self, view_number, encoded_transaction) ==
    Ok([self EXCEPT !.saved_payloads = Put(@, view_number, encoded_transaction)])

\* Consensus::update_saved_payloads
update_saved_payloads(self, view_number, encoded_transaction) ==
    IF view_number \in DOMAIN self.saved_payloads
    THEN Err(self)
    ELSE Ok([self EXCEPT !.saved_payloads = Put(@, view_number, encoded_transaction)])

\* Consensus::update_vid_shares: entry(view).or_default().insert(recipient, share)
update_vid_shares(self, view_number, disperse) ==
    LET shares == IF view_number \in DOMAIN self.vid_shares
                  THEN self.vid_shares[view_number] ELSE EmptyMap
    IN  [self EXCEPT !.vid_shares =
            Put(@, view_number, Put(shares, disperse.recipient_key, disperse))]

\* Consensus::update_saved_da_certs
update_saved_da_certs(self, view_number, cert) ==
    [self EXCEPT !.saved_da_certs = Put(@, view_number, cert)]

\* HashMap::retain(|view, _| *view > at): the key `at` itself dropped (mutant)
retain_above(m, at) == [x \in {k \in DOMAIN m : k > at} |-> m[x]]

\* HashMap::retain(|view, _| *view >= at)
retain_from(m, at) == [x \in {k \in DOMAIN m : k >= at} |-> m[x]]

\* The leaves collect_garbage removes, with the range closed at
\* new_anchor_view (mutant)
gc_leaves_through_new_anchor(self, old_anchor_view, new_anchor_view) ==
    {self.validated_state_map[v].leaf :
        v \in {w \in DOMAIN self.validated_state_map :
                 /\ old_anchor_view <= w /\ w <= new_anchor_view
                 /\ leaf_commitment(self.validated_state_map[w]) # None}}

\* The leaves collect_garbage removes: those the state-map records of the
\* views in old_anchor_view..new_anchor_view refer to
gc_leaves(self, old_anchor_view, new_anchor_view) ==
    {self.validated_state_map[v].leaf :
        v \in {w \in DOMAIN self.validated_state_map :
                 /\ old_anchor_view <= w /\ w < new_anchor_view
                 /\ leaf_commitment(self.validated_state_map[w]) # None}}

\* The outcome of collect_garbage: whether it panicked, whether it logged the
\* anchor error, and the store it leaves behind
GcOutcome(panicked, logged, self) == [panicked |-> panicked, logged |-> logged, self |-> self]

\* BTreeMap::iter().next(): the earliest entry of a non-empty state map
earliest_view(self) ==
    CHOOSE v \in DOMAIN self.validated_state_map :
        \A w \in DOMAIN self.validated_state_map : v <= w

\* collect_garbage after its anchor check: the removals
gc_sweep(self, old_anchor_view, new_anchor_view, logged) ==
    LET certs == retain_from(self.saved_da_certs, old_anchor_view)
    IN  IF old_anchor_view > new_anchor_view
        THEN \* BTreeMap::range panics on a start after its end; the DA
             \* certificates were filtered before it
             GcOutcome(TRUE, logged, [self EXCEPT !.saved_da_certs = certs])
        ELSE GcOutcome(FALSE, logged,
                [self EXCEPT
                    !.saved_da_certs = certs,
                    !.saved_leaves = [c \in (DOMAIN @) \ gc_leaves(self, old_anchor_view, new_anchor_view) |-> @[c]],
                    !.validated_state_map = split_off(@, new_anchor_view),
                    !.saved_payloads = split_off(@, new_anchor_view),
                    !.vid_shares = split_off(@, new_anchor_view),
                    !.last_proposals = split_off(@, new_anchor_view)])

\* Consensus::collect_garbage with a fatal anchor check (mutant)
collect_garbage_fatal(self, old_anchor_view, new_anchor_view) ==
    IF DOMAIN self.validated_state_map = {}
    THEN GcOutcome(TRUE, FALSE, self)
    ELSE IF earliest_view(self) # old_anchor_view
    THEN GcOutcome(TRUE, TRUE, self)
    ELSE gc_sweep(self, old_anchor_view, new_anchor_view, FALSE)

\* Consensus::collect_garbage
collect_garbage(self, old_anchor_view, new_anchor_view) ==
    IF DOMAIN self.validated_state_map = {}
    THEN GcOutcome(TRUE, FALSE, self)     \* expect(): the state map is empty
    ELSE \* an earliest entry other than old_anchor_view is logged with
         \* error!(..) and the collection carries on
         gc_sweep(self, old_anchor_view, new_anchor_view,
                  earliest_view(self) # old_anchor_view)

\* Consensus::decided_leaf answering with the genesis leaf where the code
\* panics (mutant)
decided_leaf_defaulting(self) == Some(Leaf(Genesis, 0))

\* Consensus::decided_leaf: Some(leaf), or None where one of its three
\* unwrap/expect calls panics
decided_leaf(self) ==
    LET decided_view_num == self.last_decided_view
    IN  IF decided_view_num \notin DOMAIN self.validated_state_map
        THEN None
        ELSE LET leaf == leaf_commitment(self.validated_state_map[decided_view_num])
             IN  IF leaf = None
                 THEN None
                 ELSE IF leaf[1] \notin DOMAIN self.saved_leaves
                 THEN None
                 ELSE Some(self.saved_leaves[leaf[1]])

\* ---------------------------------------------------- walking the leaf chain
\* Consensus::state_and_delta taking every view to have a state (mutant)
state_and_delta_assumed(self, view_number) ==
    [state |-> Some(view_number), delta |-> None]

\* Consensus::state_and_delta: the state and delta of a view; only a Leaf
\* record carries a state (View::state_and_delta)
state_and_delta(self, view_number) ==
    IF view_number \in DOMAIN self.validated_state_map
          /\ self.validated_state_map[view_number].kind = "Leaf"
    THEN [state |-> Some(view_number),
          delta |-> IF self.validated_state_map[view_number].delta
                    THEN Some(view_number) ELSE None]
    ELSE [state |-> None, delta |-> None]

\* Terminator::Inclusive(view) / Terminator::Exclusive(view)
Inclusive(view) == [kind |-> "Inclusive", view |-> view]
Exclusive(view) == [kind |-> "Exclusive", view |-> view]

\* What visit_leaf_ancestors returns, and the views it handed to the visitor
\* on the way, in order. leaf: the commitment a MissingLeaf error names.
VisitOk(visited) == [result |-> "Ok", leaf |-> Commitment(0, 0), visited |-> visited]
InvalidState(visited) ==
    [result |-> "InvalidState", leaf |-> Commitment(0, 0), visited |-> visited]
MissingLeaf(next_leaf, visited) ==
    [result |-> "MissingLeaf", leaf |-> next_leaf, visited |-> visited]

\* The Exclusive test that never matches (mutant)
exclusive_stop_never(terminator, view) == FALSE

\* if let Terminator::Exclusive(stop_before) = terminator { stop_before == view }
exclusive_stop(terminator, view) ==
    terminator.kind = "Exclusive" /\ terminator.view = view

\* if let Terminator::Inclusive(stop_after) = terminator { stop_after == view }
inclusive_stop(terminator, view) ==
    terminator.kind = "Inclusive" /\ terminator.view = view

\* Reaching the terminator with ok_when_finished ignored (mutant)
finished_always_ok(ok_when_finished, next_leaf, visited) == VisitOk(visited)

\* Reaching the terminator: return Ok(()) if ok_when_finished, else break out
\* of the loop to the MissingLeaf error
finished(ok_when_finished, next_leaf, visited) ==
    IF ok_when_finished THEN VisitOk(visited) ELSE MissingLeaf(next_leaf, visited)

\* The visitor's answer ignored (mutant)
visitor_stops_never(keep_going) == FALSE

\* if !f(leaf, state, delta) { return Ok(()) }
visitor_stops(keep_going) == ~keep_going

\* The loop of visit_leaf_ancestors from the commitment next_leaf on. f is the
\* visitor: the set of views at whose leaf it returns false.
RECURSIVE walk_ancestors(_, _, _, _, _, _)
walk_ancestors(self, next_leaf, terminator, ok_when_finished, f, visited) ==
    IF next_leaf \notin DOMAIN self.saved_leaves
    THEN MissingLeaf(next_leaf, visited)
    ELSE
    LET leaf == self.saved_leaves[next_leaf]
        view == leaf.view_number
        seen == Append(visited, view)
    IN  IF state_and_delta(self, view).state = None
        THEN InvalidState(visited)
        ELSE IF exclusive_stop(terminator, view)
        THEN finished(ok_when_finished, next_leaf, visited)
        ELSE IF visitor_stops(view \notin f)
        THEN VisitOk(seen)
        ELSE IF inclusive_stop(terminator, view)
        THEN finished(ok_when_finished, leaf.parent_commitment, seen)
        ELSE walk_ancestors(self, leaf.parent_commitment, terminator, ok_when_finished, f, seen)

\* Consensus::visit_leaf_ancestors
visit_leaf_ancestors(self, start_from, terminator, ok_when_finished, f) ==
    IF start_from \notin DOMAIN self.validated_state_map
    THEN InvalidState(<< >>)
    ELSE IF leaf_commitment(self.validated_state_map[start_from]) = None
    THEN InvalidState(<< >>)
    ELSE walk_ancestors(self, self.validated_state_map[start_from].leaf, terminator, ok_when_finished, f, << >>)

\* ------------------------------------------------- store operations (steps)
\* What the caller of a store method observes: the method, its argument
\* (aux: the leaf of a QC argument) and whether it returned Ok.
\* tick flips at every call, so that a call is a step even when it repeats
\* the previous one.
Ret(op, arg, aux, ok) ==
    [op |-> op, arg |-> arg, aux |-> aux, ok |-> ok, tick |-> ~ret.tick]

\* Before the first call: the store has just been constructed
Constructed == [op |-> "new", arg |-> 0, aux |-> 0, ok |-> TRUE, tick |-> FALSE]

UpdateView(v) ==
    LET r == update_view(consensus, v)
    IN  /\ consensus' = r.self
        /\ ret' = Ret("update_view", v, 0, r.ok)
        /\ UNCHANGED <<daVars, histVars, lockVars, chanVars>>

UpdateEpoch(e) ==
    LET r == update_epoch(consensus, e)
    IN  /\ consensus' = r.self
        /\ ret' = Ret("update_epoch", e, 0, r.ok)
        /\ UNCHANGED <<daVars, histVars, lockVars, chanVars>>

\* ret.arg is the view, ret.aux the action kind, ret.ok the returned bool
UpdateAction(action, view) ==
    LET r == update_action(consensus, action, view)
    IN  /\ consensus' = r.self
        /\ ret' = Ret("update_action", view, action, r.newer)
        /\ UNCHANGED <<daVars, histVars, lockVars, chanVars>>

ResetActions ==
    /\ consensus' = reset_actions(consensus)
    /\ ret' = Ret("reset_actions", 0, 0, TRUE)
    /\ UNCHANGED <<daVars, histVars, lockVars, chanVars>>

UpdateLastDecidedView(v) ==
    LET r == update_last_decided_view(consensus, v)
    IN  /\ consensus' = r.self
        /\ ret' = Ret("update_last_decided_view", v, 0, r.ok)
        /\ UNCHANGED <<daVars, histVars, lockVars, chanVars>>

UpdateLockedView(v) ==
    LET r == update_locked_view(consensus, v)
    IN  /\ consensus' = r.self
        /\ ret' = Ret("update_locked_view", v, 0, r.ok)
        /\ UNCHANGED <<daVars, histVars, lockVars, chanVars>>

UpdateHighQc(qc) ==
    LET r == update_high_qc(consensus, qc)
    IN  /\ consensus' = r.self
        /\ ret' = Ret("update_high_qc", qc.view_number, qc.leaf, r.ok)
        /\ UNCHANGED <<daVars, histVars, lockVars, chanVars>>

UpdateProposedView(proposal) ==
    LET r == update_proposed_view(consensus, proposal)
    IN  /\ consensus' = r.self
        /\ ret' = Ret("update_proposed_view", proposal.view_number, proposal, r.ok)
        /\ UNCHANGED <<daVars, histVars, lockVars, chanVars>>

UpdateValidatedStateMap(v, new_view) ==
    LET r == update_validated_state_map(consensus, v, new_view)
    IN  /\ consensus' = r.self
        /\ ret' = Ret("update_validated_state_map", v, new_view, r.ok)
        /\ UNCHANGED <<daVars, histVars, lockVars, chanVars>>

UpdateSavedLeaves(leaf) ==
    /\ consensus' = update_saved_leaves(consensus, leaf)
    /\ ret' = Ret("update_saved_leaves", leaf.view_number, leaf, TRUE)
    /\ UNCHANGED <<daVars, histVars, lockVars, chanVars>>

UpdateSavedPayloads(v, payload) ==
    LET r == update_saved_payloads(consensus, v, payload)
    IN  /\ consensus' = r.self
        /\ ret' = Ret("update_saved_payloads", v, payload, r.ok)
        /\ UNCHANGED <<daVars, histVars, lockVars, chanVars>>

\* The same call with its history kept: first_payloads holds, for every view,
\* the payload of the first successful update_saved_payloads for it
TrackedUpdateSavedPayloads(v, payload) ==
    LET r == update_saved_payloads(consensus, v, payload)
    IN  /\ consensus' = r.self
        /\ ret' = Ret("update_saved_payloads", v, payload, r.ok)
        /\ first_payloads' = IF r.ok /\ v \notin DOMAIN first_payloads
                             THEN Put(first_payloads, v, payload)
                             ELSE first_payloads
        /\ UNCHANGED <<proposed_views, stream_log, daVars, lockVars, chanVars>>

\* update_proposed_view with its history kept: proposed_views holds the views
\* of the proposals accepted so far, and whether accepted once or again
TrackedUpdateProposedView(proposal) ==
    LET r == update_proposed_view(consensus, proposal)
    IN  /\ consensus' = r.self
        /\ ret' = Ret("update_proposed_view", proposal.view_number, proposal, r.ok)
        /\ proposed_views' =
              IF r.ok
              THEN Put(proposed_views, proposal.view_number,
                       IF proposal.view_number \in DOMAIN proposed_views
                       THEN "twice" ELSE "once")
              ELSE proposed_views
        /\ UNCHANGED <<first_payloads, stream_log, daVars, lockVars, chanVars>>

UpdateVidShares(v, disperse) ==
    /\ consensus' = update_vid_shares(consensus, v, disperse)
    /\ ret' = Ret("update_vid_shares", v, disperse, TRUE)
    /\ UNCHANGED <<daVars, histVars, lockVars, chanVars>>

UpdateSavedDaCerts(v, cert) ==
    /\ consensus' = update_saved_da_certs(consensus, v, cert)
    /\ ret' = Ret("update_saved_da_certs", v, cert, TRUE)
    /\ UNCHANGED <<daVars, histVars, lockVars, chanVars>>

\* A panic ends the call; the store stays as the call left it (the store's
\* lock does not poison)
CollectGarbage(old_anchor_view, new_anchor_view) ==
    LET r == collect_garbage(consensus, old_anchor_view, new_anchor_view)
    IN  /\ consensus' = r.self
        /\ ret' = Ret("collect_garbage", old_anchor_view, new_anchor_view, ~r.panicked)
        /\ UNCHANGED <<daVars, histVars, lockVars, chanVars>>

\* ret.arg is the decided view, ret.aux the answer, ret.ok whether the call
\* returned (it panicked otherwise)
DecidedLeaf ==
    /\ ret' = Ret("decided_leaf", consensus.last_decided_view,
                  decided_leaf(consensus), decided_leaf(consensus) # None)
    /\ UNCHANGED <<consensus, daVars, histVars, lockVars, chanVars>>

\* A read of the store: the arguments and the outcome are what the caller sees
VisitLeafAncestors(start_from, terminator, ok_when_finished, f) ==
    LET r == visit_leaf_ancestors(consensus, start_from, terminator, ok_when_finished, f)
    IN  /\ ret' = Ret("visit_leaf_ancestors",
                      [start_from |-> start_from, terminator |-> terminator,
                       ok_when_finished |-> ok_when_finished, f |-> f],
                      r, r.result = "Ok")
        /\ UNCHANGED <<consensus, daVars, histVars, lockVars, chanVars>>

\* =========================================================== the store's lock
\* OuterConsensus wraps Arc<async_lock::RwLock<Consensus>>. The lock is the
\* library's: `readers` counts the read guards (the upgradable guard counts as
\* one), `writer` is its writer bit, `mutex` the internal mutex that writers
\* and the upgradable reader serialise on.
Unlocked == [readers |-> 0, writer |-> FALSE, mutex |-> FALSE]

\* RwLock::try_read admitting a reader beside a writer (mutant)
try_read_beside_writer(l) == Some([l EXCEPT !.readers = @ + 1])

\* RwLock::try_read, as OuterConsensus::try_read calls it
try_read(l) ==
    IF l.writer THEN None ELSE Some([l EXCEPT !.readers = @ + 1])

\* RwLock::try_write looking at the mutex only, not at the readers (mutant)
try_write_beside_readers(l) ==
    IF ~l.mutex /\ ~l.writer
    THEN Some([l EXCEPT !.mutex = TRUE, !.writer = TRUE])
    ELSE None

\* RwLock::try_write, as OuterConsensus::try_write calls it
try_write(l) ==
    IF ~l.mutex /\ ~l.writer /\ l.readers = 0
    THEN Some([l EXCEPT !.mutex = TRUE, !.writer = TRUE])
    ELSE None

\* RwLock::upgradable_read acquiring without the writers' mutex (mutant)
try_upgradable_read_shared(l) ==
    IF l.writer THEN None ELSE Some([l EXCEPT !.readers = @ + 1])

\* RwLock::upgradable_read, as OuterConsensus::upgradable_read awaits it: the
\* mutex is taken, then the guard is counted among the readers
try_upgradable_read(l) ==
    IF l.mutex THEN None ELSE Some([l EXCEPT !.mutex = TRUE, !.readers = @ + 1])

\* RwLock::write setting the writer bit without waiting for the mutex (mutant)
try_write_intent_without_mutex(l) ==
    IF l.writer THEN None ELSE Some([l EXCEPT !.mutex = TRUE, !.writer = TRUE])

\* RwLock::write, first half: the mutex is taken and the writer bit set, which
\* stops new readers; the second half waits for the readers to leave
try_write_intent(l) ==
    IF l.mutex THEN None ELSE Some([l EXCEPT !.mutex = TRUE, !.writer = TRUE])

\* RwLockUpgradableReadGuard::upgrade, first half: the guard stops counting as
\* a reader and sets the writer bit, keeping the mutex
begin_upgrade(l) == [l EXCEPT !.readers = @ - 1, !.writer = TRUE]

\* The writer bit is set and the last reader has left
drained(l) == l.writer /\ l.readers = 0

\* A read guard dropped without leaving the readers' count (mutant)
release_read_leaking(l) == l

\* Dropping the inner guards
release_read(l) == [l EXCEPT !.readers = @ - 1]
release_write(l) == [l EXCEPT !.writer = FALSE, !.mutex = FALSE]
release_upgradable(l) == [l EXCEPT !.readers = @ - 1, !.mutex = FALSE]

\* Drop for ConsensusUpgradableReadLockGuard releasing nothing (mutant)
drop_upgradable_guard_never(l, taken) == l

\* Drop for ConsensusUpgradableReadLockGuard ignoring `taken` (mutant)
drop_upgradable_guard_always(l, taken) == release_upgradable(l)

\* Drop for ConsensusUpgradableReadLockGuard
drop_upgradable_guard(l, taken) ==
    IF ~taken THEN release_upgradable(l) ELSE l

\* A task that holds or awaits nothing
Idle(res) ==
    [pc |-> "idle", taken |-> FALSE, view |-> Genesis, txns |-> None,
     shares |-> << >>, res |-> res]

\* Dropping a task's frame with its guards leaked (mutant)
unwind_without_release(l, task) == l

\* What a task's pending futures and guards release when its frame is dropped
\* (abort at a suspension point, or unwinding from a panic)
unwind(l, task) ==
    CASE task.pc = "reading" -> release_read(l)
      [] task.pc \in {"writing", "vid_inserting"} -> release_write(l)
      [] task.pc \in {"upgradable", "vid_lookup", "vid_computing"} ->
            drop_upgradable_guard(l, task.taken)
      [] task.pc = "write_draining" -> release_write(l)
      [] task.pc \in {"upgrading", "vid_upgrading"} ->
            drop_upgradable_guard(release_write(l), task.taken)
      [] OTHER -> l

\* ---- OuterConsensus: each method as the steps between its suspension points
OtherVars == <<ret, histVars, daVars, chanVars>>

At(t, pc) == tasks[t].pc = pc
Goto(t, pc) == tasks' = [tasks EXCEPT ![t].pc = pc]

\* OuterConsensus::read
Read(t) ==
    /\ At(t, "idle")
    /\ Goto(t, "read")
    /\ UNCHANGED <<lock, consensus, OtherVars>>

ReadAcquired(t) ==
    /\ At(t, "read")
    /\ try_read(lock) # None
    /\ lock' = try_read(lock)[1]
    /\ Goto(t, "reading")
    /\ UNCHANGED <<consensus, OtherVars>>

\* Drop for ConsensusReadLockGuard
DropRead(t) ==
    /\ At(t, "reading")
    /\ lock' = release_read(lock)
    /\ tasks' = [tasks EXCEPT ![t] = Idle("-")]
    /\ UNCHANGED <<consensus, OtherVars>>

\* OuterConsensus::try_read
TryRead(t) ==
    /\ At(t, "idle")
    /\ IF try_read(lock) # None
       THEN /\ lock' = try_read(lock)[1]
            /\ tasks' = [tasks EXCEPT ![t].pc = "reading", ![t].res = "try_read: Some"]
       ELSE /\ lock' = lock
            /\ tasks' = [tasks EXCEPT ![t].res = "try_read: None"]
    /\ UNCHANGED <<consensus, OtherVars>>

\* OuterConsensus::write
Write(t) ==
    /\ At(t, "idle")
    /\ Goto(t, "write")
    /\ UNCHANGED <<lock, consensus, OtherVars>>

WriteIntent(t) ==
    /\ At(t, "write")
    /\ try_write_intent(lock) # None
    /\ lock' = try_write_intent(lock)[1]
    /\ Goto(t, "write_draining")
    /\ UNCHANGED <<consensus, OtherVars>>

WriteAcquired(t) ==
    /\ At(t, "write_draining")
    /\ drained(lock)
    /\ Goto(t, "writing")
    /\ UNCHANGED <<lock, consensus, OtherVars>>

\* Drop for ConsensusWriteLockGuard
DropWrite(t) ==
    /\ At(t, "writing")
    /\ lock' = release_write(lock)
    /\ tasks' = [tasks EXCEPT ![t] = Idle("-")]
    /\ UNCHANGED <<consensus, OtherVars>>

\* OuterConsensus::try_write
TryWrite(t) ==
    /\ At(t, "idle")
    /\ IF try_write(lock) # None
       THEN /\ lock' = try_write(lock)[1]
            /\ tasks' = [tasks EXCEPT ![t].pc = "writing", ![t].res = "try_write: Some"]
       ELSE /\ lock' = lock
            /\ tasks' = [tasks EXCEPT ![t].res = "try_write: None"]
    /\ UNCHANGED <<consensus, OtherVars>>

\* OuterConsensus::upgradable_read
UpgradableRead(t) ==
    /\ At(t, "idle")
    /\ Goto(t, "upgradable_read")
    /\ UNCHANGED <<lock, consensus, OtherVars>>

UpgradableReadAcquired(t) ==
    /\ At(t, "upgradable_read")
    /\ try_upgradable_read(lock) # None
    /\ lock' = try_upgradable_read(lock)[1]
    /\ tasks' = [tasks EXCEPT ![t].pc = "upgradable", ![t].taken = FALSE]
    /\ UNCHANGED <<consensus, OtherVars>>

\* Drop for ConsensusUpgradableReadLockGuard, the guard never upgraded
DropUpgradable(t) ==
    /\ At(t, "upgradable")
    /\ lock' = drop_upgradable_guard(lock, tasks[t].taken)
    /\ tasks' = [tasks EXCEPT ![t] = Idle("-")]
    /\ UNCHANGED <<consensus, OtherVars>>

\* ConsensusUpgradableReadLockGuard::upgrade up to its await: the inner guard
\* is taken out of the wrapper, `taken` set, and the inner upgrade started
Upgrade(t) ==
    /\ At(t, "upgradable")
    /\ lock' = begin_upgrade(lock)
    /\ tasks' = [tasks EXCEPT ![t].pc = "upgrading", ![t].taken = TRUE]
    /\ UNCHANGED <<consensus, OtherVars>>

\* ... and from its await on: the write guard is wrapped and returned, the
\* emptied wrapper dropped
Upgraded(t) ==
    /\ At(t, "upgrading")
    /\ drained(lock)
    /\ lock' = drop_upgradable_guard(lock, tasks[t].taken)
    /\ tasks' = [tasks EXCEPT ![t].pc = "writing", ![t].taken = FALSE]
    /\ UNCHANGED <<consensus, OtherVars>>

\* A task holding the write guard records a payload (DerefMut, then
\* Consensus::update_saved_payloads)
WriterSavesPayload(t, v, payload) ==
    /\ At(t, "writing")
    /\ consensus' = update_saved_payloads(consensus, v, payload).self
    /\ UNCHANGED <<lock, tasks, OtherVars>>

\* The task is aborted while suspended: its frame is dropped (res keeps what
\* it was suspended in)
SuspensionPoints ==
    {"read", "reading", "write", "write_draining", "writing", "upgradable_read",
     "upgradable", "upgrading", "vid_upgradable_read", "vid_computing",
     "vid_upgrading"}

Suspended(pc) ==
    CASE pc \in {"read", "write", "upgradable_read", "vid_upgradable_read"} -> "acquiring"
      [] pc \in {"write_draining", "upgrading", "vid_upgrading"} -> "draining"
      [] OTHER -> "holding"

Abort(t) ==
    /\ tasks[t].pc \in SuspensionPoints
    /\ lock' = unwind(lock, tasks[t])
    /\ tasks' = [tasks EXCEPT ![t] = [Idle(Suspended(tasks[t].pc)) EXCEPT !.pc = "aborted"]]
    /\ UNCHANGED <<consensus, OtherVars>>

\* ---- Consensus::calculate_and_update_vid
\* VidDisperse::calculate_vid_disperse: the commitment of the payload and one
\* share of it for every node of the membership
calculate_vid_disperse(txns, view) ==
    [view_number |-> view, payload_commitment |-> <<"vid", txns>>,
     shares |-> [n \in Nodes |-> <<"share", txns, n>>]]

\* VidDisperseShare::from_vid_disperse: the per-node shares, in node order
from_vid_disperse(vid) ==
    [i \in 1..Cardinality(Nodes) |->
        [view_number |-> vid.view_number, recipient_key |-> i - 1,
         payload_commitment |-> vid.payload_commitment,
         share |-> vid.shares[i - 1]]]

\* VidDisperseShare::to_proposal: the share with this node's signature, or
\* None when signing fails
to_proposal(share, signed) ==
    IF signed
    THEN Some([view_number |-> share.view_number,
               recipient_key |-> share.recipient_key,
               payload_commitment |-> share.payload_commitment,
               share |-> share.share, signature |-> "signed"])
    ELSE None

\* saved_payloads().get(&view)
saved_payload(self, view) ==
    IF view \in DOMAIN self.saved_payloads
    THEN Some(self.saved_payloads[view]) ELSE None

CalculateAndUpdateVid(t, view) ==
    /\ At(t, "idle")
    /\ tasks' = [tasks EXCEPT ![t].pc = "vid_upgradable_read", ![t].view = view]
    /\ UNCHANGED <<lock, consensus, OtherVars>>

\* consensus.upgradable_read().await returns
VidUpgradableReadAcquired(t) ==
    /\ At(t, "vid_upgradable_read")
    /\ try_upgradable_read(lock) # None
    /\ lock' = try_upgradable_read(lock)[1]
    /\ tasks' = [tasks EXCEPT ![t].pc = "vid_lookup", ![t].taken = FALSE]
    /\ UNCHANGED <<consensus, OtherVars>>

\* The lookup with the guard released before the dispersal is awaited (mutant)
VidLookupReleasing(t) ==
    /\ At(t, "vid_lookup")
    /\ LET txns == saved_payload(consensus, tasks[t].view)
       IN  /\ lock' = drop_upgradable_guard(lock, tasks[t].taken)
           /\ tasks' = IF txns = None
                       THEN [tasks EXCEPT ![t] = Idle("None")]
                       ELSE [tasks EXCEPT ![t].pc = "vid_computing", ![t].txns = txns]
    /\ UNCHANGED <<consensus, OtherVars>>

\* let txns = consensus.saved_payloads().get(&view)?; then the dispersal is
\* started and awaited
VidLookup(t) ==
    /\ At(t, "vid_lookup")
    /\ LET txns == saved_payload(consensus, tasks[t].view)
       IN  IF txns = None
           THEN /\ lock' = drop_upgradable_guard(lock, tasks[t].taken)
                /\ tasks' = [tasks EXCEPT ![t] = Idle("None")]
           ELSE /\ lock' = lock
                /\ tasks' = [tasks EXCEPT ![t].pc = "vid_computing", ![t].txns = txns]
    /\ UNCHANGED <<consensus, OtherVars>>

\* calculate_vid_disperse(..).await returns; the shares are made and the
\* upgrade started
VidComputed(t) ==
    /\ At(t, "vid_computing")
    /\ lock' = begin_upgrade(lock)
    /\ tasks' = [tasks EXCEPT
                    ![t].pc = "vid_upgrading", ![t].taken = TRUE,
                    ![t].shares = from_vid_disperse(
                        calculate_vid_disperse(tasks[t].txns[1], tasks[t].view))]
    /\ UNCHANGED <<consensus, OtherVars>>

\* a failed dispersal skipped over: the call returns Some(()) with nothing
\* inserted (mutant)
VidDisperseSkipped(t) ==
    /\ At(t, "vid_computing")
    /\ lock' = drop_upgradable_guard(lock, tasks[t].taken)
    /\ tasks' = [tasks EXCEPT ![t] = Idle("Some")]
    /\ UNCHANGED <<consensus, OtherVars>>

\* the dispersal panics ("VID disperse failure"): the task unwinds
VidPanicked(t) ==
    /\ At(t, "vid_computing")
    /\ lock' = unwind(lock, tasks[t])
    /\ tasks' = [tasks EXCEPT ![t] = [Idle("panicked") EXCEPT !.pc = "panicked"]]
    /\ UNCHANGED <<consensus, OtherVars>>

\* ConsensusUpgradableReadLockGuard::upgrade(consensus).await returns
VidUpgraded(t) ==
    /\ At(t, "vid_upgrading")
    /\ drained(lock)
    /\ lock' = drop_upgradable_guard(lock, tasks[t].taken)
    /\ tasks' = [tasks EXCEPT ![t].pc = "vid_inserting", ![t].taken = FALSE]
    /\ UNCHANGED <<consensus, OtherVars>>

\* one round of `for share in shares`
VidInsertShare(t, signed) ==
    /\ At(t, "vid_inserting")
    /\ tasks[t].shares # << >>
    /\ LET prop == to_proposal(Head(tasks[t].shares), signed)
       IN  consensus' = IF prop # None
                        THEN update_vid_shares(consensus, tasks[t].view, prop[1])
                        ELSE consensus
    /\ tasks' = [tasks EXCEPT ![t].shares = Tail(@)]
    /\ UNCHANGED <<lock, OtherVars>>

\* Some(()) is returned and the write guard dropped
VidReturn(t) ==
    /\ At(t, "vid_inserting")
    /\ tasks[t].shares = << >>
    /\ lock' = release_write(lock)
    /\ tasks' = [tasks EXCEPT ![t] = Idle("Some")]
    /\ UNCHANGED <<consensus, OtherVars>>

\* ======================================================= the event channel
\* async_broadcast channel as EventsStreamer::new sets it up and as
\* broadcast_event publishes on it. queue holds the retained events, oldest
\* first, each with the number of active receivers still to read it; head_pos
\* counts the events that have left the queue; receivers gives each active
\* subscriber's position (NotSubscribed: none); published counts the calls
\* of broadcast_event and result is what the last one got from the channel;
\* pending tells that a publisher is suspended in broadcast_direct.
NotSubscribed == 0 - 1

\* broadcast(cap) with the library's defaults: no overflow, senders wait for
\* an active receiver (mutant)
new_channel_default(cap) ==
    [queue |-> << >>, head_pos |-> 0, capacity |-> cap,
     overflow |-> FALSE, await_active |-> TRUE, is_closed |-> FALSE,
     receiver_count |-> 1, inactive_receiver_count |-> 0,
     receivers |-> [s \in Subscribers |-> IF s = 1 THEN 0 ELSE NotSubscribed],
     published |-> 0, result |-> "-", overflowed |-> None, pending |-> FALSE]

\* EventsStreamer::new without set_await_active(false) (mutant)
new_channel_awaiting_active(cap) ==
    [queue |-> << >>, head_pos |-> 0, capacity |-> cap,
     overflow |-> TRUE, await_active |-> TRUE, is_closed |-> FALSE,
     receiver_count |-> 0, inactive_receiver_count |-> 1,
     receivers |-> [s \in Subscribers |-> NotSubscribed],
     published |-> 0, result |-> "-", overflowed |-> None, pending |-> FALSE]

\* EventsStreamer::new: broadcast(cap), set_overflow(true),
\* set_await_active(false), and the one receiver deactivated
new_channel(cap) ==
    [queue |-> << >>, head_pos |-> 0, capacity |-> cap,
     overflow |-> TRUE, await_active |-> FALSE, is_closed |-> FALSE,
     receiver_count |-> 0, inactive_receiver_count |-> 1,
     receivers |-> [s \in Subscribers |-> NotSubscribed],
     published |-> 0, result |-> "-", overflowed |-> None, pending |-> FALSE]

\* Sender::broadcast_direct: one attempt (try_broadcast), and what the Send
\* future does with its outcome
broadcast_direct(ch, msg) ==
    LET entry == [msg |-> msg, waiters |-> ch.receiver_count]
        sent == [ch EXCEPT !.published = @ + 1]
    IN  CASE ch.is_closed ->
               [sent EXCEPT !.result = "Err", !.overflowed = None]
          [] ~ch.is_closed /\ ch.receiver_count = 0 ->
               IF ch.await_active
               THEN [sent EXCEPT !.result = "-", !.overflowed = None, !.pending = TRUE]
               ELSE [sent EXCEPT !.result = "Err", !.overflowed = None]
          [] OTHER ->
               IF Len(ch.queue) = ch.capacity
               THEN IF ch.overflow
                    THEN [sent EXCEPT !.queue = Append(Tail(@), entry),
                                      !.head_pos = @ + 1,
                                      !.result = "Ok(Some)",
                                      !.overflowed = Some(Head(ch.queue).msg)]
                    ELSE [sent EXCEPT !.result = "-", !.overflowed = None,
                                      !.pending = TRUE]
               ELSE [sent EXCEPT !.queue = Append(@, entry),
                                 !.result = "Ok(None)", !.overflowed = None]

\* InactiveReceiver::activate_cloned: the new receiver starts after the
\* retained events
activate_cloned(ch, s) ==
    [ch EXCEPT !.receiver_count = @ + 1,
               !.receivers[s] = ch.head_pos + Len(ch.queue)]

\* Receiver::try_recv (Inner::try_recv_at): a receiver that fell behind the
\* queue's head is moved to it (Overflowed); otherwise it reads the event at
\* its position, which leaves the queue once its last receiver has read it
try_recv(ch, s) ==
    LET pos == ch.receivers[s]
        i == pos - ch.head_pos + 1
    IN  IF pos < ch.head_pos
        THEN [ch EXCEPT !.receivers[s] = ch.head_pos]
        ELSE IF i > Len(ch.queue)
        THEN ch
        ELSE IF ch.queue[i].waiters = 1
        THEN [ch EXCEPT !.receivers[s] = pos + 1,
                        !.queue = Tail(@), !.head_pos = @ + 1]
        ELSE [ch EXCEPT !.receivers[s] = pos + 1,
                        !.queue[i].waiters = @ - 1]

\* Drop for Receiver: it reads off whatever was left for it and is no longer
\* counted (the inactive receiver kept by EventsStreamer keeps the channel
\* open)
RECURSIVE drain(_, _)
drain(ch, s) ==
    IF try_recv(ch, s) = ch THEN ch ELSE drain(try_recv(ch, s), s)

drop_receiver(ch, s) ==
    [drain(ch, s) EXCEPT !.receiver_count = @ - 1, !.receivers[s] = NotSubscribed]

\* The event dispatch helper: broadcast_event(event, sender). Events are
\* numbered in publishing order.
BroadcastEvent ==
    /\ ~channel.pending
    /\ channel.published < MaxPublished
    /\ channel' = broadcast_direct(channel, channel.published + 1)
    /\ UNCHANGED <<consensus, ret, histVars, daVars, lockVars>>

\* The kinds of hotshot events: the four the streamer passes on, and two of
\* the others
StreamedKinds == {"DaProposal", "QuorumProposal", "Transactions", "Decide"}
EventKinds == StreamedKinds \cup {"Error", "ViewFinished"}

\* An event, numbered in the order the streamer handles them
Event(seq, kind) == [seq |-> seq, kind |-> kind]

\* event.into(): the event moved into an Arc
Arc(event) == [arc |-> event]

\* The filter of handle_event letting every event through (mutant)
filter_everything(event) == TRUE

\* let filter = match event { .. }
filter(event) ==
    CASE event.kind = "DaProposal" -> TRUE
      [] event.kind = "QuorumProposal" -> TRUE
      [] event.kind = "Transactions" -> TRUE
      [] event.kind = "Decide" -> TRUE
      [] OTHER -> FALSE

\* EventsStreamer::handle_event: the channel afterwards
handle_event(ch, event) ==
    IF filter(event) THEN broadcast_direct(ch, Arc(event)) ELSE ch

HandleEvent(kind) ==
    /\ ~channel.pending
    /\ stream_log.handled < MaxPublished
    /\ channel' = handle_event(channel, Event(stream_log.handled + 1, kind))
    /\ stream_log' = [stream_log EXCEPT !.handled = @ + 1, !.kind = kind]
    /\ UNCHANGED <<consensus, ret, first_payloads, proposed_views, daVars, lockVars>>

\* EventsSource::get_event_stream
GetEventStream(s) ==
    /\ channel.receivers[s] = NotSubscribed
    /\ channel' = activate_cloned(channel, s)
    /\ UNCHANGED <<consensus, ret, histVars, daVars, lockVars>>

\* A subscriber polls its stream and there is something for it
StreamNext(s) ==
    /\ channel.receivers[s] # NotSubscribed
    /\ try_recv(channel, s) # channel
    /\ channel' = try_recv(channel, s)
    /\ UNCHANGED <<consensus, ret, histVars, daVars, lockVars>>

\* The same poll, with what the stream gave (if the subscriber had fallen
\* behind, the poll only moves it to the oldest retained event) kept in
\* stream_log
SubscriberNext(s) ==
    /\ channel.receivers[s] # NotSubscribed
    /\ try_recv(channel, s) # channel
    /\ channel' = try_recv(channel, s)
    /\ stream_log' =
          IF channel.receivers[s] < channel.head_pos
          THEN stream_log
          ELSE [stream_log EXCEPT !.last[s] =
                   <<channel.queue[channel.receivers[s] - channel.head_pos + 1].msg.arc>>]
    /\ UNCHANGED <<consensus, ret, first_payloads, proposed_views, daVars, lockVars>>

\* The subscriber drops its stream
DropStream(s) ==
    /\ channel.receivers[s] # NotSubscribed
    /\ channel' = drop_receiver(channel, s)
    /\ UNCHANGED <<consensus, ret, histVars, daVars, lockVars>>

\* ============================================================ the DA task
\* Membership collaborator: the leader of a view (round robin over the nodes)
Leader(view) == view % Cardinality(Nodes)

\* This node's key: as in da_task.rs, the node under test leads the last view
\* the scenario reaches (view 2 there)
me == Leader(DaMaxView)

\* Events on the DA task's streams
ViewChange(view) == [type |-> "ViewChange", view |-> view, key |-> 0, sig_ok |-> TRUE]
BlockRecv(view) == [type |-> "BlockRecv", view |-> view, key |-> 0, sig_ok |-> TRUE]
DaProposalRecv(view, sender, sig_ok) ==
    [type |-> "DaProposalRecv", view |-> view, key |-> sender, sig_ok |-> sig_ok]
DaProposalValidatedIn(view, sender) ==
    [type |-> "DaProposalValidated", view |-> view, key |-> sender, sig_ok |-> TRUE]

DaProposalSend(view, key) == [type |-> "DaProposalSend", view |-> view, key |-> key]
DaProposalValidated(view, sender) ==
    [type |-> "DaProposalValidated", view |-> view, key |-> sender]
DaVoteSend(view, key) == [type |-> "DaVoteSend", view |-> view, key |-> key]

\* Storage collaborator: append(record) -> success | failure
append_da(st, view) ==
    IF st.should_return_err
    THEN [ok |-> FALSE,
          st |-> [st EXCEPT !.calls = Append(@, [view |-> view, ok |-> FALSE])]]
    ELSE [ok |-> TRUE,
          st |-> [st EXCEPT !.da_proposals = @ \cup {view},
                            !.calls = Append(@, [view |-> view, ok |-> TRUE])]]

\* ViewChange accepted even when not newer (mutant)
view_change_applies_nonstrict(tracked, new_view) == new_view >= tracked

\* 4.4(1): a ViewChange is applied only if strictly greater than the tracked view
view_change_applies(tracked, new_view) == new_view > tracked

\* Validation that skips the signature check (mutant)
validate_da_proposal_unsigned(ev) == ev.key = Leader(ev.view)

\* 4.4(3): structural/authorship validation of a received proposal
validate_da_proposal(ev) == ev.sig_ok /\ ev.key = Leader(ev.view)

\* 4.4(4): whether the proposal of this view was handled before
already_processed(processed, view) == view \in processed

\* A vote cast whatever the append returned (mutant)
vote_allowed_ungated(append_ok) == TRUE

\* 4.4(3): the voting gate depends solely on the append's outcome
vote_allowed(append_ok) == append_ok

\* The vote published before the validation notice (mutant)
recv_outputs_vote_first(view, sender, voter, append_ok) ==
    (IF vote_allowed(append_ok) THEN <<DaVoteSend(view, voter)>> ELSE <<>>)
        \o <<DaProposalValidated(view, sender)>>

\* 4.4(3): what a validated DaProposalRecv publishes, in order
recv_outputs(view, sender, voter, append_ok) ==
    <<DaProposalValidated(view, sender)>>
        \o (IF vote_allowed(append_ok) THEN <<DaVoteSend(view, voter)>> ELSE <<>>)

\* A re-delivered DaProposalValidated that votes again (mutant)
validated_input_outputs_revote(view, sender, voter) == <<DaVoteSend(view, voter)>>

\* 4.4(4): what a DaProposalValidated delivered as an input publishes
validated_input_outputs(view, sender, voter) == <<>>

\* A task that stops on a storage failure (mutant)
task_continues_unless_append_failed(result) == result # "append_failed"

\* 4.4 failure semantics: no handler outcome stops the task
task_continues(result) == TRUE

\* The task's position: the input it handled last, the handler's outcome, and
\* a bit that flips with every input handled
Handled(ev, result) == [ev |-> ev, result |-> result, tick |-> ~da_last.tick]

\* 4.4(1)
HandleViewChange(new_view) ==
    /\ da_running
    /\ IF view_change_applies(da_cur_view, new_view)
       THEN /\ da_cur_view' = new_view
            /\ da_payload_arrived' = FALSE
            /\ da_last' = Handled(ViewChange(new_view), "applied")
            /\ da_running' = task_continues("applied")
       ELSE /\ UNCHANGED <<da_cur_view, da_payload_arrived>>
            /\ da_last' = Handled(ViewChange(new_view), "ignored")
            /\ da_running' = task_continues("ignored")
    /\ UNCHANGED <<consensus, ret, da_processed, da_out, storage>>
    /\ UNCHANGED <<histVars, lockVars, chanVars>>

\* 4.4(2); the proposal is recorded through Consensus::update_proposed_view
HandleBlockRecv(view) ==
    /\ da_running
    /\ Leader(view) = me
    /\ LET r == update_proposed_view(consensus, [view_number |-> view, proposer |-> me])
       IN  IF r.ok
           THEN /\ consensus' = update_action(r.self, "DaPropose", view).self
                /\ da_out' = Append(da_out, DaProposalSend(view, me))
                /\ da_last' = Handled(BlockRecv(view), "proposed")
                /\ da_running' = task_continues("proposed")
           ELSE /\ UNCHANGED <<consensus, da_out>>
                /\ da_last' = Handled(BlockRecv(view), "suppressed")
                /\ da_running' = task_continues("suppressed")
    /\ da_payload_arrived' = (da_payload_arrived \/ view = da_cur_view)
    /\ UNCHANGED <<ret, da_cur_view, da_processed, storage>>
    /\ UNCHANGED <<histVars, lockVars, chanVars>>

\* 4.4(3)
HandleDaProposalRecv(ev) ==
    /\ da_running
    /\ IF ~validate_da_proposal(ev)
       THEN /\ da_last' = Handled(ev, "dropped")
            /\ da_running' = task_continues("dropped")
            /\ UNCHANGED <<consensus, da_processed, da_out, storage>>
       ELSE IF already_processed(da_processed, ev.view)
       THEN /\ da_last' = Handled(ev, "duplicate")
            /\ da_running' = task_continues("duplicate")
            /\ UNCHANGED <<consensus, da_processed, da_out, storage>>
       ELSE LET a == append_da(storage, ev.view)
                result == IF a.ok THEN "voted" ELSE "append_failed"
            IN  /\ storage' = a.st
                /\ da_processed' = da_processed \cup {ev.view}
                /\ da_out' = da_out \o recv_outputs(ev.view, ev.key, me, a.ok)
                /\ consensus' = IF vote_allowed(a.ok)
                                THEN update_action(consensus, "DaVote", ev.view).self
                                ELSE consensus
                /\ da_last' = Handled(ev, result)
                /\ da_running' = task_continues(result)
    /\ UNCHANGED <<ret, da_cur_view, da_payload_arrived>>
    /\ UNCHANGED <<histVars, lockVars, chanVars>>

\* 4.4(4)
HandleDaProposalValidated(ev) ==
    /\ da_running
    /\ da_out' = da_out \o validated_input_outputs(ev.view, ev.key, me)
    /\ da_last' = Handled(ev, "ignored")
    /\ da_running' = task_continues("ignored")
    /\ UNCHANGED <<consensus, ret, da_cur_view, da_payload_arrived, da_processed,
                   storage>>
    /\ UNCHANGED <<histVars, lockVars, chanVars>>

\* The test sets the storage's error flag (da_task.rs, should_return_err)
SetShouldReturnErr(flag) ==
    /\ storage.should_return_err # flag
    /\ storage' = [storage EXCEPT !.should_return_err = flag]
    /\ UNCHANGED <<consensus, ret, da_cur_view, da_payload_arrived, da_processed,
                   da_out, da_last, da_running>>
    /\ UNCHANGED <<histVars, lockVars, chanVars>>

\* ========================================================= specifications
GenesisConsensus ==
    new_consensus(EmptyMap, Genesis, Genesis, Genesis, Genesis, Genesis, EmptyMap, EmptyMap, EmptyMap, QC(Genesis, 0))

InitDaTask ==
    /\ da_cur_view = Genesis
    /\ da_payload_arrived = FALSE
    /\ da_processed = {}
    /\ da_out = <<>>
    /\ da_last = [ev |-> ViewChange(Genesis), result |-> "ignored", tick |-> FALSE]
    /\ da_running = TRUE
    /\ storage = [should_return_err |-> FALSE, da_proposals |-> {}, calls |-> <<>>]

\* No task has touched the lock yet
InitLock ==
    /\ lock = Unlocked
    /\ tasks = [t \in Tasks |-> Idle("-")]

\* The channel as EventsStreamer::new leaves it
InitChannel ==
    channel = new_channel(ChanCapacity)

\* The DA task of one node, driven by arbitrary inputs (the test harness)
InitDa ==
    /\ consensus = GenesisConsensus
    /\ ret = Constructed
    /\ first_payloads = EmptyMap
    /\ proposed_views = EmptyMap
    /\ stream_log = NothingStreamed
    /\ InitDaTask
    /\ InitLock
    /\ InitChannel

NextDa ==
    \/ \E v \in Genesis..DaMaxView : HandleViewChange(v)
    \/ \E v \in DaViews : HandleBlockRecv(v)
    \/ \E v \in DaViews, s \in Nodes, ok \in BOOLEAN :
          HandleDaProposalRecv(DaProposalRecv(v, s, ok))
    \/ \E v \in DaViews : HandleDaProposalValidated(DaProposalValidatedIn(v, Leader(v)))
    \/ \E flag \in BOOLEAN : SetShouldReturnErr(flag)

SpecDa == InitDa /\ [][NextDa]_vars

\* The store's progress markers, driven by arbitrary update calls
InitMarkers ==
    /\ \E cv \in {Genesis, 1}, ce \in {Genesis, 1}, lv \in {Genesis, 1},
          ldv \in {Genesis, 1}, qv \in {Genesis, 1} :
          consensus = new_consensus(EmptyMap, cv, ce, lv, ldv, Genesis, EmptyMap, EmptyMap, EmptyMap, QC(qv, 0))
    /\ ret = Constructed
    /\ first_payloads = EmptyMap
    /\ proposed_views = EmptyMap
    /\ stream_log = NothingStreamed
    /\ InitDaTask
    /\ InitLock
    /\ InitChannel

NextMarkers ==
    \/ \E v \in Views : UpdateView(v)
    \/ \E e \in Epochs : UpdateEpoch(e)
    \/ \E v \in Views : UpdateLastDecidedView(v)
    \/ \E v \in Views : UpdateLockedView(v)
    \/ \E v \in Views, l \in LeafIds : UpdateHighQc(QC(v, l))

SpecMarkers == InitMarkers /\ [][NextMarkers]_vars

\* The store's last-action bundle, driven by arbitrary update_action calls
InitActions ==
    /\ \E lav \in {Genesis, 1} :
          consensus = new_consensus(EmptyMap, Genesis, Genesis, Genesis, Genesis, lav, EmptyMap, EmptyMap, EmptyMap, QC(Genesis, 0))
    /\ ret = Constructed
    /\ first_payloads = EmptyMap
    /\ proposed_views = EmptyMap
    /\ stream_log = NothingStreamed
    /\ InitDaTask
    /\ InitLock
    /\ InitChannel

NextActions ==
    \/ \E a \in HotShotActions, v \in ActViews : UpdateAction(a, v)
    \/ ResetActions

SpecActions == InitActions /\ [][NextActions]_vars

\* The last-action bundle of a node restarted with view 1 as its last
\* actioned view, under update_action calls only
FirstActionedView == 1

InitRestarted ==
    /\ consensus = new_consensus(EmptyMap, Genesis, Genesis, Genesis, Genesis, FirstActionedView, EmptyMap, EmptyMap, EmptyMap, QC(Genesis, 0))
    /\ ret = Constructed
    /\ first_payloads = EmptyMap
    /\ proposed_views = EmptyMap
    /\ stream_log = NothingStreamed
    /\ InitDaTask
    /\ InitLock
    /\ InitChannel

NextRestarted == \E a \in HotShotActions, v \in ActViews : UpdateAction(a, v)

SpecRestarted == InitRestarted /\ [][NextRestarted]_vars

\* The store as a node starts it: anchored at the genesis view, whose leaf and
\* state are loaded
AnchoredConsensus ==
    new_consensus([v \in {Genesis} |-> LeafView(Commitment(Genesis, 0), FALSE)], Genesis, Genesis, Genesis, Genesis, Genesis, EmptyMap, [c \in {Commitment(Genesis, 0)} |-> Leaf(Genesis, 0)], EmptyMap, QC(Genesis, 0))

\* The saved payloads under recording and garbage collection; views without a
\* leaf enter the state map as Failed
InitPayloads ==
    /\ consensus = AnchoredConsensus
    /\ ret = Constructed
    /\ first_payloads = EmptyMap
    /\ proposed_views = EmptyMap
    /\ stream_log = NothingStreamed
    /\ InitDaTask
    /\ InitLock
    /\ InitChannel

NextPayloads ==
    \/ \E v \in PayViews, payload \in Payloads : TrackedUpdateSavedPayloads(v, payload)
    \/ \E v \in PayViews : UpdateValidatedStateMap(v, FailedView)
    \/ \E old \in PayViews, new \in PayViews : CollectGarbage(old, new)

SpecPayloads == InitPayloads /\ [][NextPayloads]_vars

\* The records a caller may hand to update_validated_state_map for a view: a
\* Leaf record names a leaf of that view, with or without a delta
ViewRecords(v) ==
    {LeafView(Commitment(v, id), delta) : id \in LeafIds, delta \in BOOLEAN}
        \cup {DaOnlyView, FailedView}

\* The state map under arbitrary updates
InitStateMap ==
    /\ consensus = AnchoredConsensus
    /\ ret = Constructed
    /\ first_payloads = EmptyMap
    /\ proposed_views = EmptyMap
    /\ stream_log = NothingStreamed
    /\ InitDaTask
    /\ InitLock
    /\ InitChannel

NextStateMap ==
    \E v \in TblViews : \E new_view \in ViewRecords(v) : UpdateValidatedStateMap(v, new_view)

SpecStateMap == InitStateMap /\ [][NextStateMap]_vars

\* The number of entries the store's tables hold
Entries(self) ==
    Cardinality(DOMAIN self.validated_state_map) + Cardinality(DOMAIN self.saved_leaves)
      + Cardinality(DOMAIN self.saved_payloads) + Cardinality(DOMAIN self.vid_shares)
      + Cardinality(DOMAIN self.saved_da_certs) + Cardinality(DOMAIN self.last_proposals)

\* The views a caller has new data for: those without an entry in the table,
\* while the tables hold fewer than MaxEntries entries
NewViews(table) == IF Entries(consensus) < MaxEntries THEN GcViews \ DOMAIN table ELSE {}

\* A VID share addressed to a node, a DA certificate and a quorum proposal of
\* a view
VidShare(v, recipient) == [view_number |-> v, recipient_key |-> recipient]
DaCert(v) == [view_number |-> v]
QuorumProposal(v) == [view_number |-> v, proposer |-> Leader(v)]

\* All tables of the store, filled by their update methods and emptied by
\* garbage collection
InitGc ==
    /\ consensus = AnchoredConsensus
    /\ ret = Constructed
    /\ first_payloads = EmptyMap
    /\ proposed_views = EmptyMap
    /\ stream_log = NothingStreamed
    /\ InitDaTask
    /\ InitLock
    /\ InitChannel

NextGc ==
    \/ \E v \in NewViews(consensus.validated_state_map) : UpdateValidatedStateMap(v, LeafView(Commitment(v, 0), FALSE))
    \/ \E v \in NewViews(consensus.validated_state_map) : UpdateValidatedStateMap(v, FailedView)
    \/ \E v \in NewViews([c \in {d.view : d \in DOMAIN consensus.saved_leaves} |-> 0]) : UpdateSavedLeaves(Leaf(v, 0))
    \/ \E v \in NewViews(consensus.saved_payloads) : UpdateSavedPayloads(v, "txns_a")
    \/ \E v \in NewViews(consensus.vid_shares) : UpdateVidShares(v, VidShare(v, me))
    \/ \E v \in NewViews(consensus.saved_da_certs) : UpdateSavedDaCerts(v, DaCert(v))
    \/ \E v \in NewViews(consensus.last_proposals) : UpdateProposedView(QuorumProposal(v))
    \/ \E old \in GcViews, new \in GcViews : CollectGarbage(old, new)

SpecGc == InitGc /\ [][NextGc]_vars

\* The stores a walk is tried on: for every view the state map has no record,
\* a Leaf record naming the view's leaf, or a Failed record, and the view's
\* leaf is saved or not; every leaf extends the leaf of the view before
VisitStores ==
    {new_consensus([v \in DOMAIN kinds |-> IF kinds[v] = "Leaf" THEN LeafView(Commitment(v, 0), FALSE) ELSE FailedView], Genesis, Genesis, Genesis, Genesis, Genesis, EmptyMap, [c \in {Commitment(v, 0) : v \in saved} |-> Leaf(c.view, 0)], EmptyMap, QC(Genesis, 0)) :
        kinds \in UNION {[D -> {"Leaf", "Failed"}] : D \in SUBSET VisitViews}, saved \in SUBSET VisitViews}

\* The visitors tried: one that returns true everywhere, and those that
\* return false at the leaf of one view
Visitors == {{}} \cup {{v} : v \in VisitViews}

\* The views a walk may start from: asked once, on the store as constructed
StartViews == IF ret = Constructed THEN VisitViews ELSE {}

InitVisit ==
    /\ consensus \in VisitStores
    /\ ret = Constructed
    /\ first_payloads = EmptyMap
    /\ proposed_views = EmptyMap
    /\ stream_log = NothingStreamed
    /\ InitDaTask
    /\ InitLock
    /\ InitChannel

NextVisit ==
    \/ \E s \in StartViews, t \in VisitViews, okf \in BOOLEAN, f \in Visitors : VisitLeafAncestors(s, Inclusive(t), okf, f)
    \/ \E s \in StartViews, t \in VisitViews, okf \in BOOLEAN, f \in Visitors : VisitLeafAncestors(s, Exclusive(t), okf, f)

SpecVisit == InitVisit /\ [][NextVisit]_vars

\* Tasks sharing the one store through OuterConsensus: each takes and drops
\* guards, records payloads under a write guard, runs calculate_and_update_vid,
\* and may be aborted wherever it is suspended
InitLockedStore ==
    /\ consensus = AnchoredConsensus
    /\ ret = Constructed
    /\ first_payloads = EmptyMap
    /\ proposed_views = EmptyMap
    /\ stream_log = NothingStreamed
    /\ InitDaTask
    /\ InitLock
    /\ InitChannel

NextLockedStore ==
    \/ \E t \in Tasks : Read(t)
    \/ \E t \in Tasks : ReadAcquired(t)
    \/ \E t \in Tasks : DropRead(t)
    \/ \E t \in Tasks : TryRead(t)
    \/ \E t \in Tasks : Write(t)
    \/ \E t \in Tasks : WriteIntent(t)
    \/ \E t \in Tasks : WriteAcquired(t)
    \/ \E t \in Tasks : DropWrite(t)
    \/ \E t \in Tasks : TryWrite(t)
    \/ \E t \in Tasks : UpgradableRead(t)
    \/ \E t \in Tasks : UpgradableReadAcquired(t)
    \/ \E t \in Tasks : DropUpgradable(t)
    \/ \E t \in Tasks : Upgrade(t)
    \/ \E t \in Tasks : Upgraded(t)
    \/ \E t \in Tasks, v \in LockViews : WriterSavesPayload(t, v, "txns_a")
    \/ \E t \in Tasks : Abort(t)
    \/ \E t \in Tasks, v \in LockViews : CalculateAndUpdateVid(t, v)
    \/ \E t \in Tasks : VidUpgradableReadAcquired(t)
    \/ \E t \in Tasks : VidLookup(t)
    \/ \E t \in Tasks : VidComputed(t)
    \/ \E t \in Tasks : VidPanicked(t)
    \/ \E t \in Tasks : VidUpgraded(t)
    \/ \E t \in Tasks, signed \in BOOLEAN : VidInsertShare(t, signed)
    \/ \E t \in Tasks : VidReturn(t)

SpecLockedStore == InitLockedStore /\ [][NextLockedStore]_vars

\* The same tasks run to completion by a fair executor: no task is aborted,
\* every guard is dropped (or upgraded) after finitely many steps, every step
\* that only waits for the task to be polled is taken, and the lock hands its
\* mutex and its read access to each waiting task eventually (async_lock
\* queues its waiters and wakes them in turn); signing the shares succeeds
NextScheduled ==
    \/ \E t \in Tasks : Read(t)
    \/ \E t \in Tasks : ReadAcquired(t)
    \/ \E t \in Tasks : DropRead(t)
    \/ \E t \in Tasks : Write(t)
    \/ \E t \in Tasks : WriteIntent(t)
    \/ \E t \in Tasks : WriteAcquired(t)
    \/ \E t \in Tasks : DropWrite(t)
    \/ \E t \in Tasks : UpgradableRead(t)
    \/ \E t \in Tasks : UpgradableReadAcquired(t)
    \/ \E t \in Tasks : DropUpgradable(t)
    \/ \E t \in Tasks : Upgrade(t)
    \/ \E t \in Tasks : Upgraded(t)
    \/ \E t \in Tasks, v \in LockViews : WriterSavesPayload(t, v, "txns_a")
    \/ \E t \in Tasks, v \in LockViews : CalculateAndUpdateVid(t, v)
    \/ \E t \in Tasks : VidUpgradableReadAcquired(t)
    \/ \E t \in Tasks : VidLookup(t)
    \/ \E t \in Tasks : VidComputed(t)
    \/ \E t \in Tasks : VidPanicked(t)
    \/ \E t \in Tasks : VidUpgraded(t)
    \/ \E t \in Tasks : VidInsertShare(t, TRUE)
    \/ \E t \in Tasks : VidReturn(t)

\* A step of task t that needs nothing but the task being polled: dropping
\* or upgrading the guard it holds, finishing a write or an upgrade whose
\* readers have left, a step of calculate_and_update_vid past its acquisition
Proceeds(t) ==
    \/ DropRead(t) \/ DropWrite(t) \/ DropUpgradable(t) \/ Upgrade(t)
    \/ WriteAcquired(t) \/ Upgraded(t) \/ VidUpgraded(t)
    \/ VidLookup(t) \/ VidComputed(t) \/ VidPanicked(t)
    \/ VidInsertShare(t, TRUE) \/ VidReturn(t)

\* A step in which the lock admits the waiting task t
Admitted(t) ==
    \/ ReadAcquired(t) \/ WriteIntent(t)
    \/ UpgradableReadAcquired(t) \/ VidUpgradableReadAcquired(t)

FairScheduling ==
    \A t \in Tasks : WF_vars(Proceeds(t)) /\ SF_vars(Admitted(t))

SpecScheduled == InitLockedStore /\ [][NextScheduled]_vars /\ FairScheduling

\* One publisher calling broadcast_event, subscribers that come late and read
\* at their own pace
InitDispatch ==
    /\ consensus = GenesisConsensus
    /\ ret = Constructed
    /\ first_payloads = EmptyMap
    /\ proposed_views = EmptyMap
    /\ stream_log = NothingStreamed
    /\ InitDaTask
    /\ InitLock
    /\ InitChannel

NextDispatch ==
    \/ BroadcastEvent
    \/ \E s \in Subscribers : GetEventStream(s)
    \/ \E s \in Subscribers : StreamNext(s)
    \/ \E s \in Subscribers : DropStream(s)

SpecDispatch == InitDispatch /\ [][NextDispatch]_vars

\* The events streamer: hotshot events of every kind are handled, subscribers
\* come and go and read at their own pace
NextStreamer ==
    \/ \E kind \in EventKinds : HandleEvent(kind)
    \/ \E s \in Subscribers : GetEventStream(s)
    \/ \E s \in Subscribers : SubscriberNext(s)
    \/ \E s \in Subscribers : DropStream(s)

SpecStreamer == InitDispatch /\ [][NextStreamer]_vars

\* Our own proposals under recording and garbage collection
InitProposals ==
    /\ consensus = AnchoredConsensus
    /\ ret = Constructed
    /\ first_payloads = EmptyMap
    /\ proposed_views = EmptyMap
    /\ stream_log = NothingStreamed
    /\ InitDaTask
    /\ InitLock
    /\ InitChannel

NextProposals ==
    \/ \E v \in TblViews : TrackedUpdateProposedView(QuorumProposal(v))
    \/ \E v \in NewViews(consensus.validated_state_map) : UpdateValidatedStateMap(v, FailedView)
    \/ \E old \in TblViews, new \in TblViews : CollectGarbage(old, new)

SpecProposals == InitProposals /\ [][NextProposals]_vars

\* The decided view with the state map and the saved leaves: the store starts
\* anchored and consistent, and callers update it in any order
InitDecided ==
    /\ consensus = AnchoredConsensus
    /\ ret = Constructed
    /\ first_payloads = EmptyMap
    /\ proposed_views = EmptyMap
    /\ stream_log = NothingStreamed
    /\ InitDaTask
    /\ InitLock
    /\ InitChannel

NextDecided ==
    \/ \E v \in TblViews : UpdateValidatedStateMap(v, LeafView(Commitment(v, 0), FALSE))
    \/ \E v \in TblViews : UpdateValidatedStateMap(v, FailedView)
    \/ \E v \in TblViews : UpdateSavedLeaves(Leaf(v, 0))
    \/ \E v \in TblViews : UpdateLastDecidedView(v)
    \/ \E old \in TblViews, new \in TblViews : CollectGarbage(old, new)
    \/ DecidedLeaf

SpecDecided == InitDecided /\ [][NextDecided]_vars

\* A store with an entry in every table, its markers still at genesis
PopulatedConsensus ==
    update_saved_da_certs(
        update_vid_shares(
            update_proposed_view(
                update_saved_payloads(AnchoredConsensus, 1, "txns_a").self,
                QuorumProposal(1)).self,
            1, VidShare(1, me)),
        1, DaCert(1))

\* The marker updates on a store whose tables are populated
InitFrame ==
    /\ consensus = PopulatedConsensus
    /\ ret = Constructed
    /\ first_payloads = EmptyMap
    /\ proposed_views = EmptyMap
    /\ stream_log = NothingStreamed
    /\ InitDaTask
    /\ InitLock
    /\ InitChannel

SpecFrame == InitFrame /\ [][NextMarkers]_vars

\* ================================================================ claims
\* Positions of the published events of a kind for a view
Positions(type, view) ==
    {i \in DOMAIN da_out : da_out[i].type = type /\ da_out[i].view = view}

Calls == storage.calls

\* The step handles one input of this kind
Handles(type) == da_last'.tick # da_last.tick /\ da_last'.ev.type = type

\* The received proposal is signed correctly by the leader of its view
WellFormed(ev) == ev.sig_ok /\ ev.key = Leader(ev.view)

\* C1: a DaVoteSend for a view is published only if the storage append of
\* that view's proposal succeeded; a view whose append failed has exactly one
\* DaProposalValidated published and never a DaVoteSend.
C1_VoteOnlyAfterDurableAppend ==
    /\ \A i \in DOMAIN da_out :
          da_out[i].type = "DaVoteSend" =>
             /\ da_out[i].view \in storage.da_proposals
             /\ \E c \in DOMAIN Calls : Calls[c].view = da_out[i].view /\ Calls[c].ok
    /\ \A c \in DOMAIN Calls :
          ~Calls[c].ok =>
             /\ Positions("DaVoteSend", Calls[c].view) = {}
             /\ Cardinality(Positions("DaProposalValidated", Calls[c].view)) = 1

\* C1 witness: the storage-failure scenario of da_task.rs has run to its end
\* (ViewChange 1, 2; BlockRecv 2; DaProposalRecv 2 with a failing append;
\* DaProposalValidated 2 re-delivered).
C1_Witness ==
    /\ da_cur_view = 2
    /\ Calls = <<[view |-> 2, ok |-> FALSE]>>
    /\ da_out = <<DaProposalSend(2, me), DaProposalValidated(2, Leader(2))>>
    /\ da_last.ev.type = "DaProposalValidated" /\ da_last.ev.view = 2

\* C2: every DaVoteSend comes after a DaProposalValidated of the same view,
\* and every successful append shows as DaProposalValidated immediately
\* followed by DaVoteSend for that view.
C2_ValidatedBeforeVote ==
    /\ \A i \in DOMAIN da_out :
          da_out[i].type = "DaVoteSend" =>
             \E j \in Positions("DaProposalValidated", da_out[i].view) : j < i
    /\ \A c \in DOMAIN Calls :
          Calls[c].ok =>
             \E j \in Positions("DaProposalValidated", Calls[c].view) :
                /\ j + 1 \in DOMAIN da_out
                /\ da_out[j + 1] = DaVoteSend(Calls[c].view, me)

\* C2 witness: the scenario of test_da_task has run to its end.
C2_Witness ==
    /\ da_cur_view = 2
    /\ da_last.ev.type = "DaProposalRecv" /\ da_last.result = "voted"
    /\ da_out = <<DaProposalSend(2, me), DaProposalValidated(2, Leader(2)),
                  DaVoteSend(2, me)>>

\* C3: at most one DaProposalSend is ever published per view, and a BlockRecv
\* for a view above every view proposed so far publishes exactly one
\* DaProposalSend for it.
C3_OneProposalPerView ==
    /\ [](\A v \in DaViews : Cardinality(Positions("DaProposalSend", v)) <= 1)
    /\ [][(/\ Handles("BlockRecv")
           /\ \A i \in DOMAIN da_out :
                 da_out[i].type = "DaProposalSend" => da_out[i].view < da_last'.ev.view)
          => da_out' = Append(da_out, DaProposalSend(da_last'.ev.view, me))]_vars

\* C3 witness: after ViewChange 1, 2 and a proposal for view 2, a second
\* BlockRecv for view 2 was suppressed.
C3_Witness ==
    /\ da_cur_view = 2
    /\ da_last.ev = BlockRecv(2) /\ da_last.result = "suppressed"
    /\ da_out = <<DaProposalSend(2, me)>>

\* C4: a DaProposalValidated delivered as an input for a processed view
\* publishes nothing, attempts no append and records no action.
C4_RedeliveredValidatedIsSilent ==
    [][(Handles("DaProposalValidated") /\ da_last'.ev.view \in da_processed)
       => /\ da_out' = da_out
          /\ storage' = storage
          /\ consensus' = consensus
          /\ da_processed' = da_processed]_vars

\* C4 witness: view 2 was processed and voted on, then DaProposalValidated for
\* view 2 was delivered and handled.
C4_Witness ==
    /\ 2 \in da_processed
    /\ da_last.ev.type = "DaProposalValidated" /\ da_last.ev.view = 2
    /\ Positions("DaVoteSend", 2) # {}

\* C5: a failed append never stops the task and never removes a published
\* event; the failed view gets no vote, its DaProposalValidated stays, and a
\* later proposal of a higher view whose append succeeds is validated and
\* voted on.
C5_AppendFailureNotFatal ==
    /\ [](da_running)
    /\ [][IsPrefix(da_out, da_out')]_vars
    /\ [](\A i, j \in DOMAIN Calls :
            (i < j /\ ~Calls[i].ok /\ Calls[j].ok /\ Calls[j].view > Calls[i].view)
            => /\ Positions("DaVoteSend", Calls[i].view) = {}
               /\ \E p \in Positions("DaProposalValidated", Calls[i].view),
                     q \in Positions("DaProposalValidated", Calls[j].view) :
                     /\ p < q
                     /\ q + 1 \in DOMAIN da_out
                     /\ da_out[q + 1] = DaVoteSend(Calls[j].view, me))
    /\ [][(/\ Handles("DaProposalRecv")
           /\ WellFormed(da_last'.ev)
           /\ da_last'.ev.view \notin da_processed
           /\ ~storage.should_return_err
           /\ \E c \in DOMAIN Calls : ~Calls[c].ok /\ Calls[c].view < da_last'.ev.view)
          => da_out' = da_out \o <<DaProposalValidated(da_last'.ev.view, da_last'.ev.key),
                                   DaVoteSend(da_last'.ev.view, me)>>]_vars

\* C5 witness: the append for view 1 failed, then the one for view 2 succeeded.
C5_Witness ==
    /\ Calls = <<[view |-> 1, ok |-> FALSE], [view |-> 2, ok |-> TRUE]>>
    /\ da_last.result = "voted"
    /\ da_running

\* C6: a DaProposalRecv with a bad signature or from a sender that is not the
\* leader of its view publishes nothing, attempts no append, marks nothing
\* processed and leaves the task running.
C6_InvalidProposalDropped ==
    [][(Handles("DaProposalRecv") /\ ~WellFormed(da_last'.ev))
       => /\ da_out' = da_out
          /\ storage' = storage
          /\ da_processed' = da_processed
          /\ consensus' = consensus
          /\ da_running']_vars

\* C6 witness: a proposal signed wrongly in the leader's name was handled and
\* dropped; nothing was published or appended and the task is running.
C6_Witness ==
    /\ da_last.ev.type = "DaProposalRecv" /\ da_last.result = "dropped"
    /\ ~da_last.ev.sig_ok /\ da_last.ev.key = Leader(da_last.ev.view)
    /\ da_out = <<>>
    /\ Calls = <<>>
    /\ da_running

\* C7: the tracked view never decreases; a ViewChange above it is applied and
\* starts the new view's tracking afresh, any other ViewChange changes nothing.
C7_TrackedViewMonotone ==
    [][/\ da_cur_view' >= da_cur_view
       /\ Handles("ViewChange") =>
             IF da_last'.ev.view > da_cur_view
             THEN /\ da_cur_view' = da_last'.ev.view
                  /\ da_payload_arrived' = FALSE
             ELSE /\ da_cur_view' = da_cur_view
                  /\ da_payload_arrived' = da_payload_arrived
                  /\ da_processed' = da_processed
                  /\ da_out' = da_out
                  /\ storage' = storage
                  /\ consensus' = consensus]_vars

\* C7 witness: a ViewChange to the tracked view itself was ignored while a
\* payload for that view had already arrived.
C7_Witness ==
    /\ da_last.ev.type = "ViewChange" /\ da_last.result = "ignored"
    /\ da_last.ev.view = da_cur_view
    /\ da_cur_view > Genesis
    /\ da_payload_arrived

\* The step is a call of this store method
Calls_(op) == ret'.tick # ret.tick /\ ret'.op = op

\* C8: the current view never decreases; update_view(v) returns Ok and sets
\* cur_view to v exactly when v > cur_view, otherwise it returns an error and
\* cur_view keeps its value.
C8_UpdateViewStrict ==
    [][/\ consensus'.cur_view >= consensus.cur_view
       /\ Calls_("update_view") =>
             /\ ret'.ok <=> ret'.arg > consensus.cur_view
             /\ ret'.ok => consensus'.cur_view = ret'.arg
             /\ ~ret'.ok => consensus'.cur_view = consensus.cur_view]_vars

\* C8 witness: update_view was rejected for a view equal to the current view,
\* which an earlier update_view had raised above its initial value.
C8_Witness ==
    /\ ret.op = "update_view" /\ ~ret.ok
    /\ ret.arg = consensus.cur_view
    /\ consensus.cur_view = MaxView

\* C9: update_high_qc accepts a QC only if its view is strictly greater than
\* the stored high QC's view; an accepted QC becomes the stored one, and a
\* rejected call leaves the stored high QC as it was.
C9_UpdateHighQcStrict ==
    [][Calls_("update_high_qc") =>
          /\ ret'.ok <=> ret'.arg > consensus.high_qc.view_number
          /\ ret'.ok => consensus'.high_qc = QC(ret'.arg, ret'.aux)
          /\ ~ret'.ok => consensus'.high_qc = consensus.high_qc]_vars

\* C9 witness: a QC of the stored high QC's view, for another leaf, was
\* rejected and the stored one kept.
C9_Witness ==
    /\ ret.op = "update_high_qc" /\ ~ret.ok
    /\ ret.arg = consensus.high_qc.view_number
    /\ ret.aux # consensus.high_qc.leaf
    /\ consensus.high_qc.view_number > 1

\* C10: update_epoch, update_last_decided_view and update_locked_view each
\* return Ok and store the value exactly when it is strictly greater than the
\* marker, otherwise return an error and change nothing; so none of the three
\* markers ever decreases.
C10_MarkersStrict ==
    [][/\ consensus'.cur_epoch >= consensus.cur_epoch
       /\ consensus'.last_decided_view >= consensus.last_decided_view
       /\ consensus'.locked_view >= consensus.locked_view
       /\ Calls_("update_epoch") =>
             /\ ret'.ok <=> ret'.arg > consensus.cur_epoch
             /\ ret'.ok => consensus'.cur_epoch = ret'.arg
             /\ ~ret'.ok => consensus' = consensus
       /\ Calls_("update_last_decided_view") =>
             /\ ret'.ok <=> ret'.arg > consensus.last_decided_view
             /\ ret'.ok => consensus'.last_decided_view = ret'.arg
             /\ ~ret'.ok => consensus' = consensus
       /\ Calls_("update_locked_view") =>
             /\ ret'.ok <=> ret'.arg > consensus.locked_view
             /\ ret'.ok => consensus'.locked_view = ret'.arg
             /\ ~ret'.ok => consensus' = consensus]_vars

\* C10 witness: with all three markers raised, update_locked_view was rejected
\* for a lower view.
C10_Witness ==
    /\ ret.op = "update_locked_view" /\ ~ret.ok
    /\ ret.arg < consensus.locked_view
    /\ consensus.cur_epoch = MaxEpoch
    /\ consensus.last_decided_view > 1
    /\ consensus.locked_view > 1

\* C11: update_saved_payloads(view, payload) on a view that already has a
\* saved payload returns an error and leaves the store, that payload
\* included, unchanged; on a view without an entry it returns Ok and the
\* table gains exactly the entry view -> payload.
C11_SavedPayloadNotOverwritten ==
    [][Calls_("update_saved_payloads") =>
          LET before == consensus.saved_payloads
              after  == consensus'.saved_payloads
          IN  IF ret'.arg \in DOMAIN before
              THEN ~ret'.ok /\ consensus' = consensus
              ELSE /\ ret'.ok
                   /\ DOMAIN after = (DOMAIN before) \cup {ret'.arg}
                   /\ after[ret'.arg] = ret'.aux
                   /\ \A v \in DOMAIN before : after[v] = before[v]]_vars

\* C11 witness: a second, different payload for a view was rejected and the
\* first one is still the saved one.
C11_Witness ==
    /\ ret.op = "update_saved_payloads" /\ ~ret.ok
    /\ ret.arg \in DOMAIN consensus.saved_payloads
    /\ consensus.saved_payloads[ret.arg] # ret.aux
    /\ Cardinality(DOMAIN consensus.saved_payloads) > 1

\* C12 as stated: over update_saved_payloads and collect_garbage calls, a
\* view never holds a payload other than the first one recorded for it.
C12_WriteOnceForLife ==
    \A v \in DOMAIN consensus.saved_payloads :
        v \in DOMAIN first_payloads /\ consensus.saved_payloads[v] = first_payloads[v]

\* C12 (amended): a saved payload is write-once for as long as its entry
\* stays in the table: no call changes the payload of a view that has an
\* entry before and after it, and an entry leaves the table only in a
\* collect_garbage call whose new anchor is above its view.
C12_WriteOnceWhileStored ==
    [][\A v \in DOMAIN consensus.saved_payloads :
          IF v \in DOMAIN consensus'.saved_payloads
          THEN consensus'.saved_payloads[v] = consensus.saved_payloads[v]
          ELSE Calls_("collect_garbage") /\ v < ret'.aux]_vars

\* C12 witness: after its entry was garbage collected, a view was given a
\* payload other than the first one recorded for it.
C12_Witness ==
    /\ ret.op = "update_saved_payloads" /\ ret.ok
    /\ ret.arg \in DOMAIN first_payloads
    /\ first_payloads[ret.arg] # ret.aux
    /\ consensus.saved_payloads[ret.arg] = ret.aux

\* C13: update_validated_state_map(view, new_record) never regresses known
\* state: over an existing Leaf record with a known delta, a Leaf record
\* without a delta and a non-Leaf record are rejected; a rejected call leaves
\* the store unchanged; an accepted call leaves new_record at that view and
\* every other view's record as it was.
C13_NoStateRegression ==
    [][Calls_("update_validated_state_map") =>
          LET v      == ret'.arg
              new    == ret'.aux
              before == consensus.validated_state_map
              after  == consensus'.validated_state_map
          IN  /\ (/\ v \in DOMAIN before
                  /\ before[v].kind = "Leaf" /\ before[v].delta
                  /\ (new.kind # "Leaf" \/ ~new.delta)) => ~ret'.ok
              /\ ~ret'.ok => consensus' = consensus
              /\ ret'.ok =>
                    /\ DOMAIN after = (DOMAIN before) \cup {v}
                    /\ after[v] = new
                    /\ \A w \in (DOMAIN before) \ {v} : after[w] = before[w]]_vars

\* C13 witness: a Leaf record without a delta was rejected for a view whose
\* Leaf record has a delta, while another view holds a non-Leaf record.
C13_Witness ==
    /\ ret.op = "update_validated_state_map" /\ ~ret.ok
    /\ ret.aux.kind = "Leaf" /\ ~ret.aux.delta
    /\ consensus.validated_state_map[ret.arg].kind = "Leaf"
    /\ consensus.validated_state_map[ret.arg].delta
    /\ \E w \in DOMAIN consensus.validated_state_map :
          consensus.validated_state_map[w].kind = "DaOnly"

\* The table `after` is the table `before` cut down to the views >= at
CutAt(before, after, at) ==
    /\ DOMAIN after = {v \in DOMAIN before : v >= at}
    /\ \A v \in DOMAIN after : after[v] = before[v]

\* C14: after collect_garbage(A, B) with B > A has returned, the state map,
\* the saved payloads, the VID shares and the last proposals hold no view
\* below B and hold every entry of a view >= B unchanged; the DA
\* certificates of views below A are gone and those of views >= A (in A..B-1
\* or from B on) are kept unchanged.
C14_GcTruncatesTables ==
    [][(Calls_("collect_garbage") /\ ret'.ok /\ ret'.aux > ret'.arg) =>
          /\ CutAt(consensus.validated_state_map, consensus'.validated_state_map, ret'.aux)
          /\ CutAt(consensus.saved_payloads, consensus'.saved_payloads, ret'.aux)
          /\ CutAt(consensus.vid_shares, consensus'.vid_shares, ret'.aux)
          /\ CutAt(consensus.last_proposals, consensus'.last_proposals, ret'.aux)
          /\ CutAt(consensus.saved_da_certs, consensus'.saved_da_certs, ret'.arg)]_vars

\* C14 witness: collect_garbage(A, B) with B > A has returned and left a DA
\* certificate of a view in A..B-1 next to a state-map entry of a view >= B.
C14_Witness ==
    /\ ret.op = "collect_garbage" /\ ret.ok /\ ret.aux > ret.arg
    /\ \E v \in DOMAIN consensus.saved_da_certs : ret.arg <= v /\ v < ret.aux
    /\ consensus.validated_state_map # EmptyMap

\* C15 as stated: when the state map's earliest entry is not old_anchor,
\* collect_garbage aborts and removes nothing from any table.
C15_AnchorCheckIsFatal ==
    [][(/\ Calls_("collect_garbage")
        /\ consensus.validated_state_map # EmptyMap
        /\ earliest_view(consensus) # ret'.arg) =>
          ~ret'.ok /\ consensus' = consensus]_vars

\* C15, what the code does instead: collect_garbage aborts before removing
\* anything only when the state map is empty. An earliest entry other than
\* old_anchor does not stop it: with old_anchor <= new_anchor the call returns
\* and has cut the state map, the saved payloads, the VID shares and the last
\* proposals at new_anchor and the DA certificates at old_anchor, as it does
\* when the earliest entry is old_anchor.
C15_AnchorCheckOnlyLogs ==
    [][Calls_("collect_garbage") =>
          /\ consensus.validated_state_map = EmptyMap => (~ret'.ok /\ consensus' = consensus)
          /\ (consensus.validated_state_map # EmptyMap /\ ret'.arg <= ret'.aux) =>
                /\ ret'.ok
                /\ CutAt(consensus.validated_state_map, consensus'.validated_state_map, ret'.aux)
                /\ CutAt(consensus.saved_payloads, consensus'.saved_payloads, ret'.aux)
                /\ CutAt(consensus.vid_shares, consensus'.vid_shares, ret'.aux)
                /\ CutAt(consensus.last_proposals, consensus'.last_proposals, ret'.aux)
                /\ CutAt(consensus.saved_da_certs, consensus'.saved_da_certs, ret'.arg)]_vars

\* C15, the divergence reached: collect_garbage(A, A) has returned and left
\* the state map empty, so the earliest entry it found was below A (an entry
\* at A would have stayed) and the call removed it all the same.
C15_Witness ==
    /\ ret.op = "collect_garbage" /\ ret.ok
    /\ ret.arg = ret.aux
    /\ consensus.validated_state_map = EmptyMap
    /\ consensus.last_proposals # EmptyMap

\* C16: collect_garbage removes from the saved leaves exactly the leaves
\* that state-map records of views in old_anchor..new_anchor-1 refer to; every
\* other leaf stays as it was, among them the leaf of the record at
\* new_anchor and of every later view.
C16_GcLeaves ==
    [][(Calls_("collect_garbage") /\ ret'.ok) =>
          LET m == consensus.validated_state_map
              collected == {c \in DOMAIN consensus.saved_leaves :
                              \E v \in DOMAIN m : /\ ret'.arg <= v /\ v < ret'.aux
                                                  /\ m[v].kind = "Leaf" /\ m[v].leaf = c}
          IN  /\ DOMAIN consensus'.saved_leaves = (DOMAIN consensus.saved_leaves) \ collected
              /\ \A c \in DOMAIN consensus'.saved_leaves :
                    consensus'.saved_leaves[c] = consensus.saved_leaves[c]
              /\ \A v \in DOMAIN m :
                    (v >= ret'.aux /\ m[v].kind = "Leaf" /\ m[v].leaf \in DOMAIN consensus.saved_leaves)
                        => m[v].leaf \in DOMAIN consensus'.saved_leaves]_vars

\* C16 witness: collect_garbage(A, B) with B > A has returned; the genesis
\* leaf is gone, the leaf of the record at B is still saved, and so is a leaf
\* of a view below B that no record referred to.
C16_Witness ==
    /\ ret.op = "collect_garbage" /\ ret.ok /\ ret.aux > ret.arg
    /\ Commitment(Genesis, 0) \notin DOMAIN consensus.saved_leaves
    /\ ret.aux \in DOMAIN consensus.validated_state_map
    /\ consensus.validated_state_map[ret.aux].kind = "Leaf"
    /\ consensus.validated_state_map[ret.aux].leaf \in DOMAIN consensus.saved_leaves
    /\ \E c \in DOMAIN consensus.saved_leaves : c.view < ret.aux

\* The views lo..hi form an intact stretch of the chain: each has a Leaf
\* record naming its leaf, and that leaf is saved
Intact(self, hi, lo) ==
    \A v \in lo..hi :
        /\ v \in DOMAIN self.validated_state_map
        /\ self.validated_state_map[v].kind = "Leaf"
        /\ self.validated_state_map[v].leaf \in DOMAIN self.saved_leaves
        /\ self.saved_leaves[self.validated_state_map[v].leaf].view_number = v

\* The views hi, hi-1, .., lo in that order (none when lo > hi)
Descending(hi, lo) == [i \in 1..(hi - lo + 1) |-> hi - i + 1]

\* C17 as stated: on an intact chain, from view s with Exclusive(t), t < s,
\* and a visitor that always returns true, the visitor is invoked once for
\* each leaf of the views s, s-1, .., t+1 in that order, never for the leaf
\* of view t, and the call returns success.
C17_ExclusiveWalkSucceeds ==
    [][(/\ Calls_("visit_leaf_ancestors")
        /\ ret'.arg.terminator.kind = "Exclusive"
        /\ ret'.arg.terminator.view < ret'.arg.start_from
        /\ ret'.arg.f = {}
        /\ Intact(consensus, ret'.arg.start_from, ret'.arg.terminator.view)) =>
          /\ ret'.aux.visited = Descending(ret'.arg.start_from, ret'.arg.terminator.view + 1)
          /\ ret'.aux.result = "Ok"]_vars

\* C17 (amended): on an intact chain, from view s with Exclusive(t), t < s,
\* and a visitor that always returns true, the visitor is invoked once for
\* each leaf of the views s, s-1, .., t+1 in that order and never for the
\* leaf of view t; the call returns success when ok_when_finished is true,
\* and a missing-leaf error naming the leaf of view t when it is false.
C17_ExclusiveWalk ==
    [][(/\ Calls_("visit_leaf_ancestors")
        /\ ret'.arg.terminator.kind = "Exclusive"
        /\ ret'.arg.terminator.view < ret'.arg.start_from
        /\ ret'.arg.f = {}
        /\ Intact(consensus, ret'.arg.start_from, ret'.arg.terminator.view)) =>
          /\ ret'.aux.visited = Descending(ret'.arg.start_from, ret'.arg.terminator.view + 1)
          /\ ret'.arg.ok_when_finished => ret'.aux.result = "Ok"
          /\ ~ret'.arg.ok_when_finished =>
                /\ ret'.aux.result = "MissingLeaf"
                /\ ret'.aux.leaf = Commitment(ret'.arg.terminator.view, 0)]_vars

\* C17 witness: the walk from view 3 with Exclusive(1) over the chain
\* 1 <- 2 <- 3 handed the visitor the leaves of views 3 and 2, and with
\* ok_when_finished false it returned the missing-leaf error.
C17_Witness ==
    /\ ret.op = "visit_leaf_ancestors"
    /\ ret.arg.start_from = 3 /\ ret.arg.terminator = Exclusive(1)
    /\ ret.arg.f = {} /\ ~ret.arg.ok_when_finished
    /\ Intact(consensus, 3, 1)
    /\ ret.aux.visited = <<3, 2>>
    /\ ret.aux.result = "MissingLeaf"

\* The views of the chain that a walk towards this terminator hands to the
\* visitor: down to the bound itself (Inclusive) or to the view above it
TerminatorReach(start_from, terminator) ==
    IF terminator.kind = "Inclusive" THEN terminator.view..start_from
                                     ELSE (terminator.view + 1)..start_from

\* C18: when the walk stops because it reached the terminator (the chain is
\* intact from the start down to the terminator's view and the visitor
\* returned true on the way), the call returns success exactly when
\* ok_when_finished is true and a missing-leaf error otherwise; with an
\* Inclusive terminator the leaf at the bound was visited exactly once, with
\* an Exclusive terminator it was not visited.
C18_FinishedResult ==
    [][(/\ Calls_("visit_leaf_ancestors")
        /\ ret'.arg.terminator.view <= ret'.arg.start_from
        /\ Intact(consensus, ret'.arg.start_from, ret'.arg.terminator.view)
        /\ ret'.arg.f \cap TerminatorReach(ret'.arg.start_from, ret'.arg.terminator) = {}) =>
          LET bound == ret'.arg.terminator.view
              at_bound == {i \in DOMAIN ret'.aux.visited : ret'.aux.visited[i] = bound}
          IN  /\ ret'.aux.result = "Ok" <=> ret'.arg.ok_when_finished
              /\ ~ret'.arg.ok_when_finished => ret'.aux.result = "MissingLeaf"
              /\ ret'.arg.terminator.kind = "Inclusive" => Cardinality(at_bound) = 1
              /\ ret'.arg.terminator.kind = "Exclusive" => at_bound = {}]_vars

\* C18 witness: a walk with an Inclusive terminator below the start and
\* ok_when_finished false visited the leaf at the bound last and returned
\* the missing-leaf error.
C18_Witness ==
    /\ ret.op = "visit_leaf_ancestors"
    /\ ret.arg.terminator.kind = "Inclusive"
    /\ ret.arg.terminator.view < ret.arg.start_from
    /\ ~ret.arg.ok_when_finished
    /\ ret.aux.result = "MissingLeaf"
    /\ Len(ret.aux.visited) > 1
    /\ ret.aux.visited[Len(ret.aux.visited)] = ret.arg.terminator.view

\* C19: once the visitor has returned false the walk is over and the call
\* returns success, whatever ok_when_finished and the terminator are: the
\* leaf it returned false for is the last one it was handed.
C19_VisitorStopsWalk ==
    [][(/\ Calls_("visit_leaf_ancestors")
        /\ \E i \in DOMAIN ret'.aux.visited : ret'.aux.visited[i] \in ret'.arg.f) =>
          /\ ret'.aux.result = "Ok"
          /\ \A i \in DOMAIN ret'.aux.visited :
                ret'.aux.visited[i] \in ret'.arg.f => i = Len(ret'.aux.visited)]_vars

\* C19 witness: the visitor returned false for the leaf at the Inclusive
\* bound, whose parent is not saved, with ok_when_finished false; the call
\* returned success.
C19_Witness ==
    /\ ret.op = "visit_leaf_ancestors" /\ ret.ok
    /\ ret.arg.terminator.kind = "Inclusive"
    /\ ~ret.arg.ok_when_finished
    /\ Len(ret.aux.visited) > 1
    /\ ret.aux.visited[Len(ret.aux.visited)] = ret.arg.terminator.view
    /\ ret.arg.terminator.view \in ret.arg.f
    /\ Commitment(ret.arg.terminator.view - 1, 0) \notin DOMAIN consensus.saved_leaves

\* C20: the walk fails with an invalid-state error, the visitor never
\* invoked, when the starting view has no state-map record or a record
\* without a leaf commitment; with a missing-leaf error naming the parent
\* when, the terminator not yet reached, the parent of the last visited leaf
\* is not saved; and with an invalid-state error when the leaf reached
\* belongs to a view without a validated state. In the last two cases the
\* visitor was invoked for the leaves above the offending one only.
C20_WalkErrors ==
    [][Calls_("visit_leaf_ancestors") =>
          LET s == ret'.arg.start_from
              t == ret'.arg.terminator.view
              m == consensus.validated_state_map
          IN  /\ (s \notin DOMAIN m \/ m[s].kind # "Leaf") =>
                    ret'.aux.result = "InvalidState" /\ ret'.aux.visited = << >>
              /\ \A u \in 1..s :
                    (/\ Intact(consensus, s, u)
                     /\ Commitment(u - 1, 0) \notin DOMAIN consensus.saved_leaves
                     /\ t \notin u..s
                     /\ ret'.arg.f \cap (u..s) = {}) =>
                        /\ ret'.aux.result = "MissingLeaf"
                        /\ ret'.aux.leaf = Commitment(u - 1, 0)
                        /\ ret'.aux.visited = Descending(s, u)
              /\ \A u \in 1..(s - 1) :
                    (/\ Intact(consensus, s, u + 1)
                     /\ Commitment(u, 0) \in DOMAIN consensus.saved_leaves
                     /\ (u \notin DOMAIN m \/ m[u].kind # "Leaf")
                     /\ t \notin (u + 1)..s
                     /\ ret'.arg.f \cap ((u + 1)..s) = {}) =>
                        /\ ret'.aux.result = "InvalidState"
                        /\ ret'.aux.visited = Descending(s, u + 1)]_vars

\* C20 witness: a walk met, below the leaves it visited, a saved leaf whose
\* view has a Failed record, and returned the invalid-state error.
C20_Witness ==
    /\ ret.op = "visit_leaf_ancestors"
    /\ ret.aux.result = "InvalidState"
    /\ Len(ret.aux.visited) > 1
    /\ LET u == ret.aux.visited[Len(ret.aux.visited)] - 1
       IN  /\ Commitment(u, 0) \in DOMAIN consensus.saved_leaves
           /\ u \in DOMAIN consensus.validated_state_map
           /\ consensus.validated_state_map[u].kind = "Failed"

\* C21: update_action(kind, view) for kind in {Propose, Vote, DaPropose}
\* returns true and records view as the last action of that kind exactly when
\* view is strictly greater than the recorded view of that kind; otherwise it
\* returns false and the store is unchanged. So a call that repeats the
\* previous call's kind and view returns false.
C21_UpdateActionStrict ==
    [][Calls_("update_action") /\ ret'.aux \in {"Propose", "Vote", "DaPropose"} =>
          /\ ret'.ok <=> ret'.arg > last_action(consensus, ret'.aux)
          /\ ret'.ok => consensus' =
                CASE ret'.aux = "Vote" ->
                       [consensus EXCEPT !.last_actions.voted = ret'.arg]
                  [] ret'.aux = "Propose" ->
                       [consensus EXCEPT !.last_actions.proposed = ret'.arg]
                  [] ret'.aux = "DaPropose" ->
                       [consensus EXCEPT !.last_actions.da_proposed = ret'.arg]
          /\ ~ret'.ok => consensus' = consensus
          /\ (ret.op = "update_action" /\ ret.aux = ret'.aux /\ ret.arg = ret'.arg)
                => ~ret'.ok]_vars

\* C21 witness: a vote was recorded for view 2 and the same call, repeated,
\* was answered false while the other kinds stayed where they were.
C21_Witness ==
    /\ ret.op = "update_action" /\ ret.aux = "Vote" /\ ret.arg = 2 /\ ~ret.ok
    /\ consensus.last_actions.voted = 2
    /\ consensus.last_actions.proposed < 2

\* C22: update_action(DaVote, view) returns true for every view, a view equal
\* to or lower than the last recorded DA-vote view included, and the last
\* DA-voted view becomes the maximum of its previous value and view; nothing
\* else in the store changes.
C22_DaVoteAlwaysAllowed ==
    [][Calls_("update_action") /\ ret'.aux = "DaVote" =>
          /\ ret'.ok
          /\ consensus' = [consensus EXCEPT !.last_actions.da_vote =
                IF ret'.arg > consensus.last_actions.da_vote
                THEN ret'.arg ELSE consensus.last_actions.da_vote]]_vars

\* C22 witness: after a DA vote for view 2, a DA vote for view 1 was allowed
\* and the recorded view stayed 2.
C22_Witness ==
    /\ ret.op = "update_action" /\ ret.aux = "DaVote" /\ ret.arg = 1 /\ ret.ok
    /\ consensus.last_actions.da_vote = 2

\* The guard a task holds, from where it is
HoldsRead(t) == tasks[t].pc = "reading"
HoldsUpgradable(t) == tasks[t].pc \in {"upgradable", "vid_lookup", "vid_computing"}
HoldsWrite(t) == tasks[t].pc \in {"writing", "vid_inserting"}
AwaitsDrain(t) == tasks[t].pc \in {"write_draining", "upgrading", "vid_upgrading"}

\* The lock is exactly as the guards in existence require
LockMatchesGuards ==
    /\ lock.readers = Cardinality({t \in Tasks : HoldsRead(t) \/ HoldsUpgradable(t)})
    /\ lock.writer <=> \E t \in Tasks : HoldsWrite(t) \/ AwaitsDrain(t)
    /\ lock.mutex <=> \E t \in Tasks : HoldsWrite(t) \/ AwaitsDrain(t) \/ HoldsUpgradable(t)

\* Task t holds or awaits no guard
HoldsNothing(t) == tasks[t].pc \in {"idle", "aborted", "panicked"}

\* C23: from a task's acquisition of the upgradable read guard until upgrade
\* has returned the exclusive guard, no other task acquires the write lock
\* and the store is not modified; the payload calculate_and_update_vid read
\* under the upgradable guard is the one saved when it inserts the shares.
C23_NoWriterBeforeUpgrade ==
    [][\A t \in Tasks :
          /\ (HoldsUpgradable(t) \/ tasks[t].pc \in {"upgrading", "vid_upgrading"}) =>
                /\ consensus' = consensus
                /\ \A u \in Tasks \ {t} : tasks'[u].pc \notin {"writing", "vid_inserting"}
          /\ tasks[t].pc \in {"vid_computing", "vid_upgrading", "vid_inserting"} =>
                saved_payload(consensus, tasks[t].view) = tasks[t].txns]_vars

\* C23 witness: a task that went through the upgrade is inserting the shares
\* of the payload it read, while another task still waits for the write lock.
C23_Witness ==
    /\ tasks[1].pc = "vid_inserting" /\ Len(tasks[1].shares) = 1
    /\ tasks[1].txns = Some("txns_a")
    /\ tasks[2].pc = "write"

\* C24: an upgradable read guard releases the lock exactly once on every
\* path. Dropped without upgrading, it releases the upgradable read lock;
\* consumed by upgrade (taken set), its own drop releases nothing and the lock
\* is released when the resulting write guard is dropped. The lock is at all
\* times exactly as the guards in existence require.
C24_UpgradableGuardReleasesOnce ==
    [][/\ LockMatchesGuards'
       /\ \A t \in Tasks :
            /\ (HoldsUpgradable(t) /\ tasks'[t].pc = "idle") =>
                  /\ ~tasks[t].taken
                  /\ lock' = [lock EXCEPT !.readers = @ - 1, !.mutex = FALSE]
            /\ (tasks[t].pc \in {"upgrading", "vid_upgrading"}
                  /\ tasks'[t].pc \in {"writing", "vid_inserting"}) =>
                  /\ tasks[t].taken
                  /\ lock' = lock
                  /\ lock.mutex /\ lock.writer
            /\ (HoldsWrite(t) /\ tasks'[t].pc = "idle") =>
                  /\ lock.mutex /\ lock.writer
                  /\ lock' = [lock EXCEPT !.writer = FALSE, !.mutex = FALSE]]_vars

\* C24 witness: one task dropped its guard without upgrading (no payload),
\* the other upgraded, wrote and dropped the write guard; the lock is free.
C24_Witness ==
    /\ tasks[1].pc = "idle" /\ tasks[1].res = "None"
    /\ tasks[2].pc = "idle" /\ tasks[2].res = "Some"
    /\ lock = Unlocked

\* C25: at every instant at most one task holds a write guard, no read or
\* upgradable-read guard is held while a write guard is held, and at most one
\* upgradable-read guard exists; the store changes only in steps of the task
\* holding the write guard, so no reader sees a partial update.
MutualExclusion ==
    /\ Cardinality({t \in Tasks : HoldsWrite(t)}) <= 1
    /\ Cardinality({t \in Tasks : HoldsUpgradable(t)}) <= 1
    /\ (\E t \in Tasks : HoldsWrite(t)) =>
          \A u \in Tasks : ~HoldsRead(u) /\ ~HoldsUpgradable(u)

C25_WritersExclusive ==
    [][/\ MutualExclusion /\ MutualExclusion'
       /\ lock.readers = Cardinality({t \in Tasks : HoldsRead(t) \/ HoldsUpgradable(t)})
       /\ consensus' # consensus =>
             \E t \in Tasks : HoldsWrite(t) /\ tasks'[t].pc = tasks[t].pc]_vars

\* C25 witness: one task has inserted the first of two shares under its write
\* guard while another is suspended in read().
C25_Witness ==
    /\ tasks[1].pc = "vid_inserting" /\ Len(tasks[1].shares) = 1
    /\ 1 \in DOMAIN consensus.vid_shares
    /\ tasks[2].pc = "read"

\* C26: try_write returns None at once, the lock unchanged and the task not
\* suspended, whenever another task holds a read, upgradable-read or write
\* guard, and try_read does so whenever a write guard is held; a guard is
\* returned only when that access mode is free at the call.
C26_TryLockNeverWaits ==
    [][\A t \in Tasks :
          /\ (tasks[t].pc = "idle" /\ tasks'[t].res = "try_write: Some"
                /\ tasks'[t].pc = "writing") =>
                /\ \A u \in Tasks \ {t} :
                      ~HoldsRead(u) /\ ~HoldsUpgradable(u) /\ ~HoldsWrite(u)
                /\ lock = Unlocked
          /\ (tasks[t].res # "try_write: None" /\ tasks'[t].res = "try_write: None") =>
                /\ lock' = lock /\ tasks'[t].pc = "idle"
                /\ lock # Unlocked
          /\ (tasks[t].pc = "idle" /\ tasks'[t].res = "try_read: Some"
                /\ tasks'[t].pc = "reading") =>
                /\ \A u \in Tasks \ {t} : ~HoldsWrite(u)
                /\ ~lock.writer
          /\ (tasks[t].res # "try_read: None" /\ tasks'[t].res = "try_read: None") =>
                /\ lock' = lock /\ tasks'[t].pc = "idle"
                /\ lock.writer]_vars

\* C26 witness: try_write found a reader and returned None; the task is not
\* suspended and the reader still holds its guard.
C26_Witness ==
    /\ tasks[1].pc = "idle" /\ tasks[1].res = "try_write: None"
    /\ tasks[2].pc = "reading"
    /\ lock = [readers |-> 1, writer |-> FALSE, mutex |-> FALSE]

\* C27 as stated: while calculate_and_update_vid computes the dispersal, the
\* calling task holds no guard, i.e. the lock is as the other tasks' guards
\* alone require.
C27_ComputesWithoutLock ==
    \A t \in Tasks : tasks[t].pc = "vid_computing" =>
        /\ lock.readers = Cardinality({u \in Tasks \ {t} : HoldsRead(u) \/ HoldsUpgradable(u)})
        /\ lock.mutex <=> \E u \in Tasks \ {t} :
                             HoldsWrite(u) \/ AwaitsDrain(u) \/ HoldsUpgradable(u)

\* C27, amended: calculate_and_update_vid computes the dispersal while it
\* holds the upgradable read guard (readers are admitted, writers and other
\* upgradable readers are not); exclusive access is held only while the shares
\* are inserted.
C27_ComputesUnderUpgradableRead ==
    \A t \in Tasks :
        /\ tasks[t].pc = "vid_computing" =>
              /\ lock.mutex /\ ~lock.writer
              /\ lock.readers = 1 + Cardinality({u \in Tasks \ {t} : HoldsRead(u)})
              /\ \A u \in Tasks \ {t} :
                    ~HoldsWrite(u) /\ ~AwaitsDrain(u) /\ ~HoldsUpgradable(u)
        /\ tasks[t].pc = "vid_inserting" =>
              lock = [readers |-> 0, writer |-> TRUE, mutex |-> TRUE]

\* C27 witness: the dispersal is being computed and a reader has been admitted
\* meanwhile, beside the upgradable read guard.
C27_Witness ==
    /\ tasks[1].pc = "vid_computing"
    /\ tasks[2].pc = "reading"
    /\ lock = [readers |-> 2, writer |-> FALSE, mutex |-> TRUE]

\* C28: calculate_and_update_vid for a view without a saved payload returns
\* None without upgrading and without changing the store, the upgradable read
\* lock released; with a payload present it returns Some, each round of the
\* loop having put the signed share of that payload into the VID-shares table
\* of the view (a share whose signing failed is skipped).
C28_VidUpdate ==
    [][\A t \in Tasks :
          /\ (tasks[t].pc = "vid_lookup" /\ tasks'[t].pc = "idle") =>
                /\ tasks'[t].res = "None"
                /\ tasks[t].view \notin DOMAIN consensus.saved_payloads
                /\ ~tasks[t].taken /\ tasks[t].shares = << >>
                /\ consensus' = consensus
                /\ lock' = [lock EXCEPT !.readers = @ - 1, !.mutex = FALSE]
          /\ (tasks[t].pc = "vid_lookup" /\ tasks'[t].pc = "vid_computing") =>
                tasks[t].view \in DOMAIN consensus.saved_payloads
          /\ (tasks[t].pc = "vid_inserting" /\ tasks'[t].pc = "vid_inserting") =>
                LET share == Head(tasks[t].shares)
                    view == tasks[t].view
                    prop == [view_number |-> view,
                             recipient_key |-> share.recipient_key,
                             payload_commitment |-> <<"vid", consensus.saved_payloads[view]>>,
                             share |-> <<"share", consensus.saved_payloads[view], share.recipient_key>>,
                             signature |-> "signed"]
                IN  \/ consensus' = consensus
                    \/ /\ consensus'.vid_shares[view][share.recipient_key] = prop
                       /\ consensus' = [consensus EXCEPT !.vid_shares = consensus'.vid_shares]
                       /\ \A v \in DOMAIN consensus.vid_shares :
                             \A r \in DOMAIN consensus.vid_shares[v] :
                                (v # view \/ r # share.recipient_key) =>
                                    consensus'.vid_shares[v][r] = consensus.vid_shares[v][r]
          /\ (tasks[t].pc = "vid_inserting" /\ tasks'[t].pc = "idle") =>
                /\ tasks'[t].res = "Some"
                /\ tasks[t].shares = << >>
                /\ tasks[t].view \in DOMAIN consensus.saved_payloads
                /\ consensus' = consensus
                /\ lock' = Unlocked]_vars

\* C28 witness: the first call found no payload and returned None; after the
\* payload was saved the second call returned Some and both nodes' signed
\* shares are in the table.
C28_Witness ==
    /\ tasks[1].pc = "idle" /\ tasks[1].res = "None"
    /\ tasks[2].pc = "idle" /\ tasks[2].res = "Some"
    /\ 1 \in DOMAIN consensus.vid_shares
    /\ DOMAIN consensus.vid_shares[1] = Nodes
    /\ \A n \in Nodes : consensus.vid_shares[1][n].signature = "signed"

\* C29: a task aborted while it holds a guard, awaits one or is in the middle
\* of upgrade leaves no lock held: after the abort the lock is exactly as the
\* remaining tasks' guards require (each of its guards released once, no
\* other guard touched), the store is untouched, and if the others hold
\* nothing the lock is free to take.
C29_AbortReleases ==
    [][\A t \in Tasks :
          (tasks[t].pc # "aborted" /\ tasks'[t].pc = "aborted") =>
              /\ LockMatchesGuards /\ LockMatchesGuards'
              /\ consensus' = consensus
              /\ \A u \in Tasks \ {t} : tasks'[u] = tasks[u]
              /\ (\A u \in Tasks \ {t} : HoldsNothing(u)) => lock' = Unlocked]_vars

\* C29 witness: a task was aborted in the middle of upgrade; afterwards the
\* other task acquired the write lock.
C29_Witness ==
    /\ tasks[1].pc = "aborted" /\ tasks[1].res = "draining"
    /\ tasks[2].pc = "writing" /\ tasks[2].res = "try_write: Some"

\* The events subscriber s has still to receive
Backlog(s) ==
    LET from == IF channel.receivers[s] < channel.head_pos
                THEN 1 ELSE channel.receivers[s] - channel.head_pos + 1
    IN  [i \in 1..(Len(channel.queue) - from + 1) |-> channel.queue[from + i - 1].msg]

\* C30: publishing through broadcast_event never blocks the publisher. On a
\* channel that holds capacity events a further publish completes at once,
\* drops the oldest retained event and retains the new one; the retained
\* events never exceed capacity, and an event that is capacity or more
\* publishes old is in no subscriber's backlog (after capacity + 1 publishes
\* the first event is gone).
C30_PublishNeverBlocks ==
    [][/\ ~channel'.pending
       /\ Len(channel'.queue) <= channel'.capacity
       /\ \A i \in 1..Len(channel'.queue) :
             channel'.queue[i].msg > channel'.published - channel'.capacity
       /\ (channel'.published # channel.published
             /\ Len(channel.queue) = channel.capacity) =>
             /\ channel'.result = "Ok(Some)"
             /\ channel'.overflowed = Some(Head(channel.queue).msg)
             /\ Len(channel'.queue) = channel.capacity
             /\ \A i \in 1..(channel.capacity - 1) :
                   channel'.queue[i].msg = channel.queue[i + 1].msg
             /\ channel'.queue[channel.capacity].msg = channel'.published
             /\ channel'.receivers = channel.receivers]_vars

\* C30 witness: capacity + 1 events were published to a subscriber that read
\* none; the last publish overflowed, event 1 was dropped and the
\* subscriber's backlog starts with event 2.
C30_Witness ==
    /\ channel.published = channel.capacity + 1
    /\ channel.receivers[1] = 0
    /\ channel.result = "Ok(Some)" /\ channel.overflowed = Some(1)
    /\ Len(Backlog(1)) = channel.capacity /\ Backlog(1)[1] = 2

\* C31: publishing an event on a channel with no active subscriber is a no-op
\* for the publisher: the call returns without suspending (the channel's
\* refusal is only logged), nothing is retained, and the publisher goes on
\* publishing: its next event is handled as on a fresh channel.
C31_PublishWithoutSubscriber ==
    [][(channel'.published # channel.published /\ channel.receiver_count = 0) =>
          /\ ~channel.pending /\ ~channel'.pending
          /\ channel' = [channel EXCEPT !.published = @ + 1, !.result = "Err",
                                        !.overflowed = None]
          /\ channel'.queue = << >>]_vars

\* C31 witness: the first event was published with nobody subscribed and not
\* retained; a subscriber arrived, and the publisher's second event is the
\* only one in its backlog.
C31_Witness ==
    /\ channel.published = 2 /\ channel.result = "Ok(None)"
    /\ channel.head_pos = 0
    /\ channel.receivers[1] = 0
    /\ Backlog(1) = <<2>>

\* C32 as stated: over any sequence of update_proposed_view and
\* collect_garbage calls, update_proposed_view accepts a proposal only if its
\* view is strictly greater than every view for which a proposal was accepted
\* before, and a rejected proposal leaves the table unchanged.
C32_AcceptsOnlyAboveAllAccepted ==
    [][Calls_("update_proposed_view") =>
          /\ ret'.ok => \A v \in DOMAIN proposed_views : ret'.arg > v
          /\ ~ret'.ok => consensus' = consensus]_vars

\* C32, amended: update_proposed_view accepts a proposal exactly when its
\* view is strictly greater than the greatest view the table holds at the
\* call (genesis when it is empty), and then adds that one entry; a rejected
\* proposal leaves the store unchanged; the keys in the table are views that
\* were accepted. collect_garbage drops the entries below the new anchor, so a
\* view at or below an accepted one is accepted again once those are gone.
C32_AcceptsAboveStoredKeys ==
    [][/\ Calls_("update_proposed_view") =>
             /\ ret'.ok <=> \A v \in (DOMAIN consensus.last_proposals) \cup {Genesis} :
                               ret'.arg > v
             /\ ret'.ok => consensus' = [consensus EXCEPT !.last_proposals =
                                            Put(@, ret'.arg, ret'.aux)]
             /\ ~ret'.ok => consensus' = consensus
       /\ DOMAIN consensus'.last_proposals \subseteq DOMAIN proposed_views'
       /\ (Calls_("collect_garbage") /\ ret'.ok) =>
             DOMAIN consensus'.last_proposals =
                {v \in DOMAIN consensus.last_proposals : v >= ret'.aux}]_vars

\* C32 witness: the proposal of view 1 was accepted, garbage collection with
\* the anchor at view 2 dropped it, and a proposal of view 1 was accepted
\* again.
C32_Witness ==
    /\ ret.op = "update_proposed_view" /\ ret.ok /\ ret.arg = 1
    /\ 1 \in DOMAIN proposed_views /\ proposed_views[1] = "twice"
    /\ DOMAIN consensus.last_proposals = {1}

\* The decided view has a Leaf record in the state map, and the leaf that
\* record names is saved
DecidedConsistent(self) ==
    /\ self.last_decided_view \in DOMAIN self.validated_state_map
    /\ self.validated_state_map[self.last_decided_view].kind = "Leaf"
    /\ self.validated_state_map[self.last_decided_view].leaf \in DOMAIN self.saved_leaves

C34_DisperseFailureIsFatal ==
    [][\A t \in Tasks :
          /\ (tasks[t].pc = "vid_computing" /\ tasks'[t] # tasks[t]) =>
                \/ /\ tasks'[t].pc = "vid_upgrading"
                   /\ tasks'[t].shares = from_vid_disperse(calculate_vid_disperse(
                          consensus.saved_payloads[tasks[t].view], tasks[t].view))
                \/ /\ tasks'[t].pc \in {"panicked", "aborted"}
                   /\ tasks'[t].shares = << >>
                   /\ tasks'[t].res # "Some"
                   /\ (tasks'[t].pc = "panicked") => tasks'[t].res = "panicked"
                   /\ consensus' = consensus
          /\ tasks[t].pc = "panicked" =>
                /\ tasks'[t] = tasks[t]
                /\ consensus'.vid_shares # consensus.vid_shares =>
                       \E u \in Tasks \ {t} : tasks[u].pc = "vid_inserting"
          /\ (tasks'[t].res = "Some" /\ tasks[t].res # "Some") =>
                tasks[t].pc = "vid_inserting"]_vars

\* C34 witness: the dispersal of the first task failed; the task is gone
\* with the view's payload saved and no share of it in the table, and the
\* other task has got the lock it released.
C34_Witness ==
    /\ tasks[1].pc = "panicked" /\ tasks[1].res = "panicked"
    /\ 1 \in DOMAIN consensus.saved_payloads
    /\ 1 \notin DOMAIN consensus.vid_shares
    /\ tasks[2].pc = "vid_computing"

\* Task t is inside calculate_and_update_vid with the lock acquired
InVidUpdate(t) ==
    tasks[t].pc \in {"vid_lookup", "vid_computing", "vid_upgrading", "vid_inserting"}

\* C35: while a task runs calculate_and_update_vid, from its acquisition of
\* the upgradable read lock until its shares are inserted, no other task
\* holds or can obtain a write guard or a second upgradable-read guard (a
\* second calculate_and_update_vid is not past its acquisition), whereas
\* during the computation a plain read guard can still be acquired.
C35_VidUpdateSerialised ==
    \A t \in Tasks :
        InVidUpdate(t) =>
            /\ \A u \in Tasks \ {t} :
                  /\ ~HoldsWrite(u) /\ ~HoldsUpgradable(u) /\ ~AwaitsDrain(u)
                  /\ ~InVidUpdate(u)
            /\ try_write(lock) = None
            /\ try_write_intent(lock) = None
            /\ try_upgradable_read(lock) = None
            /\ tasks[t].pc = "vid_computing" => try_read(lock) # None

\* C35 witness: the first task awaits its dispersal under the upgradable
\* guard, the second has got a plain read guard from try_read, and the lock
\* counts both.
C35_Witness ==
    /\ tasks[1].pc = "vid_computing"
    /\ tasks[2].pc = "reading" /\ tasks[2].res = "try_read: Some"
    /\ lock = [readers |-> 2, writer |-> FALSE, mutex |-> TRUE]

\* Task t has called calculate_and_update_vid and the call has not ended
InVidCall(t) == tasks[t].pc = "vid_upgradable_read" \/ InVidUpdate(t)

\* Task t waits for the lock (for its mutex, for read access or for the
\* readers to leave) or is inside calculate_and_update_vid
Pending(t) ==
    \/ tasks[t].pc \in {"read", "write", "upgradable_read"}
    \/ AwaitsDrain(t)
    \/ InVidCall(t)

\* C36: with every task holding at most one guard and dropping it after
\* finitely many steps, under fair scheduling every calculate_and_update_vid
\* call eventually ends (it returns, or its dispersal panics), its upgrade
\* being granted once the current readers have left, and no task that waits
\* for the lock waits forever.
C36_VidUpdateTerminates ==
    \A t \in Tasks : Pending(t) ~> ~Pending(t)

\* C36 witness: the upgrade of the first task's call waits for the second
\* task's read guard: the writer bit is set and one reader is left.
C36_Witness ==
    /\ tasks[1].pc = "vid_upgrading"
    /\ tasks[2].pc = "reading"
    /\ lock = [readers |-> 1, writer |-> TRUE, mutex |-> TRUE]

\* C37: a walk with Exclusive(t) and ok_when_finished true that comes down
\* to view t (the chain above t intact, the visitor returning true there)
\* returns success only when the leaf of view t is still saved and view t
\* has a state: with that leaf gone it returns the missing-leaf error naming
\* it, with the leaf saved but no state for its view the invalid-state
\* error, although the visitor is never handed the leaf of view t.
C37_ExclusiveNeedsTerminatorLeaf ==
    [][(/\ Calls_("visit_leaf_ancestors")
        /\ ret'.arg.terminator.kind = "Exclusive"
        /\ ret'.arg.ok_when_finished
        /\ ret'.arg.terminator.view <= ret'.arg.start_from
        /\ ret'.arg.f \cap ((ret'.arg.terminator.view + 1)..ret'.arg.start_from) = {}
        /\ Intact(consensus, ret'.arg.start_from, ret'.arg.terminator.view + 1)) =>
          LET t == ret'.arg.terminator.view
              saved == Commitment(t, 0) \in DOMAIN consensus.saved_leaves
              named == /\ t \in DOMAIN consensus.validated_state_map
                       /\ leaf_commitment(consensus.validated_state_map[t]) # None
              state == state_and_delta(consensus, t).state # None
          IN  /\ \A i \in DOMAIN ret'.aux.visited : ret'.aux.visited[i] # t
              /\ ret'.aux.result = "Ok" <=> saved /\ state
              /\ (~saved /\ (t < ret'.arg.start_from \/ named)) =>
                    /\ ret'.aux.result = "MissingLeaf"
                    /\ ret'.aux.leaf = Commitment(t, 0)
              /\ (saved /\ ~state) => ret'.aux.result = "InvalidState"
              /\ ret'.aux.result = "Ok" =>
                    ret'.aux.visited = Descending(ret'.arg.start_from, t + 1)]_vars

\* C37 witness: the walk from view 3 with Exclusive(1) and ok_when_finished
\* true came down the intact chain 2 <- 3 and, the leaf of view 1 being gone
\* from the saved leaves, returned the missing-leaf error naming that leaf.
C37_Witness ==
    /\ ret.op = "visit_leaf_ancestors"
    /\ ret.arg.start_from = 3 /\ ret.arg.terminator = Exclusive(1)
    /\ ret.arg.f = {} /\ ret.arg.ok_when_finished
    /\ Intact(consensus, 3, 2)
    /\ Commitment(1, 0) \notin DOMAIN consensus.saved_leaves
    /\ ret.aux.visited = <<3, 2>>
    /\ ret.aux.result = "MissingLeaf" /\ ret.aux.leaf = Commitment(1, 0)

\* The store differs from `old` in the field `field` at most
OnlyChanged(old, new, field) ==
    \A g \in DOMAIN old : g # field => new[g] = old[g]

\* C38: each marker update (update_view, update_epoch,
\* update_last_decided_view, update_locked_view, update_high_qc) leaves
\* every other marker, the last-action bundle and all tables unchanged when
\* it succeeds, and the whole store unchanged when it fails; no other marker
\* is adjusted as a side effect.
C38_MarkerUpdatesFrame ==
    [][/\ Calls_("update_view") => OnlyChanged(consensus, consensus', "cur_view")
       /\ Calls_("update_epoch") => OnlyChanged(consensus, consensus', "cur_epoch")
       /\ Calls_("update_last_decided_view") =>
             OnlyChanged(consensus, consensus', "last_decided_view")
       /\ Calls_("update_locked_view") => OnlyChanged(consensus, consensus', "locked_view")
       /\ Calls_("update_high_qc") => OnlyChanged(consensus, consensus', "high_qc")
       /\ ~ret'.ok => consensus' = consensus
       /\ DOMAIN consensus' = DOMAIN consensus]_vars

\* C38 witness: the decided view was raised to 2 past the locked view, the
\* current view and the high QC, which stay at genesis, with every table
\* still holding its entry.
C38_Witness ==
    /\ ret.op = "update_last_decided_view" /\ ret.ok
    /\ consensus.last_decided_view = 2
    /\ consensus.locked_view = Genesis /\ consensus.cur_view = Genesis
    /\ consensus.high_qc = QC(Genesis, 0)
    /\ consensus = [PopulatedConsensus EXCEPT !.last_decided_view = 2]
    /\ \A tbl \in {"validated_state_map", "saved_leaves", "saved_payloads",
                    "vid_shares", "saved_da_certs", "last_proposals"} :
          DOMAIN consensus[tbl] # {}

\* C39: over update_action calls without reset_actions each of the four
\* last-action markers is non-decreasing and never below the last actioned
\* view given at construction, a call for one kind changes no other kind's
\* marker (nor anything else in the store), and update_action(kind, v) for
\* Propose, Vote or DaPropose with v not above that initial view returns
\* false.
C39_ActionMarkersMonotone ==
    [][Calls_("update_action") =>
          /\ \A k \in RecordedActions :
                /\ last_action(consensus', k) >= last_action(consensus, k)
                /\ last_action(consensus, k) >= FirstActionedView
                /\ k # ret'.aux => last_action(consensus', k) = last_action(consensus, k)
          /\ consensus' = [consensus EXCEPT !.last_actions = consensus'.last_actions]
          /\ (ret'.aux \in {"Propose", "Vote", "DaPropose"} /\ ret'.arg <= FirstActionedView) =>
                ~ret'.ok /\ consensus' = consensus]_vars

\* C39 witness: after proposals up to view 2, a vote for view 1, the view the
\* node was constructed with, is refused; the vote marker is still 1 and the
\* proposal marker 2.
C39_Witness ==
    /\ ret.op = "update_action" /\ ret.aux = "Vote" /\ ret.arg = FirstActionedView
    /\ ~ret.ok
    /\ consensus.last_actions.voted = FirstActionedView
    /\ consensus.last_actions.proposed = 2

\* C40: handle_event publishes an event on the channel exactly when its kind
\* is DaProposal, QuorumProposal, Transactions or Decide (the event is then
\* retained last, unless no subscriber is there to receive it), and an event
\* of any other kind leaves the channel untouched; only events of those four
\* kinds are retained or given to a subscriber, and each subscriber's stream
\* gives the events in the order they were handled (each one handled later
\* than the one the stream gave before).
C40_StreamsFilteredInOrder ==
    [][/\ stream_log'.handled # stream_log.handled =>
             LET event == Event(stream_log'.handled, stream_log'.kind)
                 sent == channel'.published = channel.published + 1
             IN  /\ sent <=> event.kind \in StreamedKinds
                 /\ ~sent => channel' = channel
                 /\ sent /\ channel.receiver_count > 0 =>
                       /\ channel'.result \in {"Ok(None)", "Ok(Some)"}
                       /\ channel'.queue[Len(channel'.queue)].msg = Arc(event)
                 /\ sent /\ channel.receiver_count = 0 =>
                       channel'.result = "Err" /\ channel'.queue = channel.queue
       /\ \A i \in 1..Len(channel'.queue) :
             /\ channel'.queue[i].msg.arc.kind \in StreamedKinds
             /\ channel'.queue[i].msg.arc.seq <= stream_log'.handled
             /\ i > 1 => channel'.queue[i].msg.arc.seq > channel'.queue[i - 1].msg.arc.seq
       /\ \A s \in Subscribers :
             stream_log'.last[s] # stream_log.last[s] =>
                /\ stream_log'.last[s][1].kind \in StreamedKinds
                /\ stream_log'.last[s][1].seq <= stream_log.handled
                /\ stream_log.last[s] # << >> =>
                      stream_log'.last[s][1].seq > stream_log.last[s][1].seq]_vars

\* C40 witness: three events were handled with both subscribers listening;
\* the second was of a kind the streamer does not pass on, so two were
\* published. The second subscriber's stream has given the first and then
\* the third event, the first subscriber's only the first so far.
C40_Witness ==
    /\ stream_log.handled = 3 /\ channel.published = 2
    /\ stream_log.kind = "Decide"
    /\ stream_log.last[2] # << >> /\ stream_log.last[2][1].seq = 3
    /\ stream_log.last[1] # << >> /\ stream_log.last[1][1].seq = 1
    /\ channel.receivers[1] = 1 /\ channel.receivers[2] = 2

====
